---------------------------- MODULE Spec2Model ----------------------------
(***************************************************************************)
(* Peer protocol state machine, security manager and gossip/gunban layer   *)
(* of antispam-p2p-beacon (server/p2p/protocol.py, server/p2p/security.py).*)
(*                                                                         *)
(* Every node is one process: it owns one factory (peers, known_uuids,     *)
(* the spammer database) and one SECURITY_MANAGER.  Every connection end   *)
(* is one P2PProtocol instance.  Handlers run to completion on the single  *)
(* reactor thread, so each handler is one action.                          *)
(*                                                                         *)
(* server/p2p/factory.py, server/database.py and server/server_config.py   *)
(* are not part of the sources; what the protocol calls in them is         *)
(* modelled from the specification (factory_* operators).                  *)
(***************************************************************************)
EXTENDS Integers, Sequences, FiniteSets, TLC

(***************************************************************************)
(* Bounds of the model.                                                    *)
(***************************************************************************)
MaxEnv == 2        \* connections opened by outside peers to node "A"
MaxTime == 2       \* ticks the clock may advance (one tick = 60 s)
MaxMtime == 1      \* revisions (mtime) of the configuration file
MaxOrig == 1       \* gunbans originated in the three-node topology
MaxMsgs == 102     \* messages of one IP admitted within one window
MaxReads == 2      \* reads delivered to one connection
MaxObjects == 3    \* JSON objects in one read

(***************************************************************************)
(* Program constants.                                                      *)
(***************************************************************************)
WINDOW_TICKS == 1          \* the 60 s sliding window, in ticks
REPLAY_TICKS == 5          \* the 300 s replay window, in ticks
DEQUE_MAXLEN == 100        \* deque(maxlen=100)

(***************************************************************************)
(* Universe.                                                               *)
(***************************************************************************)
Nodes == {"A", "B", "C"}               \* node_uuid of the nodes running this code
UUIDs == Nodes \cup {"X"}              \* "X": a uuid that is no node of the model
None == "None"                         \* Python None
Users == {"u1"}
EnvHosts == {"hE"}
NodeHost(n) == "h" \o n                \* IP address of node n
Hosts == EnvHosts \cup {NodeHost(n) : n \in Nodes}
Keys == {"k1", "k2", ""}               \* NETWORK_SECRET_KEY values ("" = not set)

(***************************************************************************)
(* Topology.  Connections 1..6 are the two ends of A-B, B-C and A-C;       *)
(* connections 7.. are ends, at node "A", of connections whose other end   *)
(* is an outside peer (any bytes may arrive on them).                      *)
(***************************************************************************)
Links == << <<"A", "B">>, <<"B", "C">>, <<"A", "C">> >>
NodeConns == 1 .. (2 * Len(Links))
EnvConns == (2 * Len(Links) + 1) .. (2 * Len(Links) + MaxEnv)
Conns == NodeConns \cup EnvConns

Remote(p) == IF p \in EnvConns THEN 0 ELSE IF p % 2 = 1 THEN p + 1 ELSE p - 1
Owner(p) ==
    IF p \in EnvConns THEN "A"
    ELSE IF p % 2 = 1 THEN Links[(p + 1) \div 2][1] ELSE Links[p \div 2][2]
ConnTo(a, b) == CHOOSE p \in NodeConns : Owner(p) = a /\ Owner(Remote(p)) = b

VARIABLES
    \* ---- factory (one per node)
    peers,               \* factory.peers: the connections whose PeerAddress is listed
    known_uuids,         \* factory.known_uuids
    storage,             \* the spammer database: user_id -> record or None
    \* ---- P2PProtocol (one per connection end)
    st,                  \* transport: "idle", "open", "closing" (loseConnection called), "closed"
    host,                \* transport.getPeer().host
    peer_uuid,           \* self.peer_uuid
    handshake_complete,  \* self.handshake_complete
    processed_data,      \* self.processed_data
    deferred,            \* self.deferred: "absent" (no such attribute), "pending", "called"
    timeout_call,        \* self.timeout_call: None, or the state of the DelayedCall
    inbox,               \* bytes in flight to this end, as a sequence of JSON objects
    \* ---- SecurityManager (one per node): attributes _load_configuration assigns
    enabled, allowed_node_keys, blocked_node_keys, blocked_ips, config_mtime,
    \* ---- SecurityManager: attributes the decision methods read
    has_attrs,           \* whether the attributes of the next two lines exist (no line of security.py assigns them)
    security_enabled, blocked_nodes, allowed_nodes,
    connection_counts, connection_times, message_counts,
    authenticated_nodes, \* assigned {} (a dict) by _init_security_state
    \* ---- server_config values bound at import of security.py
    ENABLE_P2P_SECURITY, ALLOWED_NODE_KEYS, BLOCKED_NODE_KEYS, BLOCKED_IP_ADDRESSES,
    REQUIRE_NODE_AUTHENTICATION, NETWORK_SECRET_KEY, MAX_CONNECTIONS_PER_IP,
    CONNECTION_RATE_LIMIT, MESSAGE_RATE_LIMIT, ENABLE_MESSAGE_SIGNING,
    REJECT_UNSIGNED_MESSAGES,
    \* ---- environment
    now,                 \* time.time(), in ticks
    file_mtime,          \* os.path.getmtime(".env")
    env_file,            \* what .env held at each of its revisions: env_file[n][file_mtime[n]] is on disk
    orig,                \* gunbans originated so far (bounded by MaxOrig)
    \* ---- observation of the last handler that ran
    last,                \* which handler ran, on which connection, with which message, and what it did
    out,                 \* what the last handler wrote on each transport
    hs_result,           \* how the last handshake message handled on a connection ended
    attempts,            \* per node and IP: the times at which connectionMade admitted a connection
    resolutions,         \* per connection: how often its waiter was resolved (callback or errback ran)
    admitted,            \* per node and IP: the times, within 60 s of the latest, at which
                         \* is_message_allowed answered "Message allowed"
    \* ---- a running dataReceived call (one per connection end)
    pending,             \* json_strings the for loop of line 118 has not reached yet
    bound,               \* whether the local name `message` is bound in the call
    \* ---- observation of the reads of a connection
    nreads,              \* reads delivered so far (bounded by MaxReads)
    arrived,             \* the objects that arrived whole and parse, in arrival order
    dispatched,          \* the objects handed to a handler, in the order of the calls
    fragment             \* the object that arrives in two reads: "none", "head" (its first
                         \* bytes ended a read), "whole" (its last bytes began the next)

factoryVars == <<peers, known_uuids, storage>>
protoVars == <<st, host, peer_uuid, handshake_complete, processed_data, inbox>>
waiterVars == <<deferred, timeout_call, resolutions>>
policyVars == <<enabled, allowed_node_keys, blocked_node_keys, blocked_ips, config_mtime>>
attrVars == <<has_attrs, security_enabled, blocked_nodes, allowed_nodes>>
rtVars == <<connection_counts, connection_times, message_counts, authenticated_nodes>>
cfgVars == <<ENABLE_P2P_SECURITY, ALLOWED_NODE_KEYS, BLOCKED_NODE_KEYS, BLOCKED_IP_ADDRESSES,
             REQUIRE_NODE_AUTHENTICATION, NETWORK_SECRET_KEY, MAX_CONNECTIONS_PER_IP,
             CONNECTION_RATE_LIMIT, MESSAGE_RATE_LIMIT, ENABLE_MESSAGE_SIGNING,
             REJECT_UNSIGNED_MESSAGES>>
envVars == <<now, file_mtime, env_file, orig>>
obsVars == <<last, out, hs_result>>
readVars == <<pending, bound, nreads, arrived, dispatched, fragment>>
vars == <<factoryVars, protoVars, waiterVars, policyVars, attrVars, rtVars, cfgVars, envVars,
          obsVars, attempts, admitted, readVars>>

(***************************************************************************)
(* JSON objects are records; a missing key is a missing field.             *)
(***************************************************************************)
Has(m, f) == f \in DOMAIN m
Get(m, f, default) == IF f \in DOMAIN m THEN m[f] ELSE default           \* dict.get
Without(m, f) == [g \in (DOMAIN m) \ {f} |-> m[g]]                       \* copy, del copy[f]
With(m, f, v) == [g \in (DOMAIN m) \cup {f} |-> IF g = f THEN v ELSE m[g]] \* m[f] = v
Abs(x) == IF x < 0 THEN -x ELSE x
NoToken == <<>>                        \* "" (and None) where a hex digest is expected

(***************************************************************************)
(* SecurityManager (security.py).  sm is the record of the attributes of   *)
(* node n's manager that some method assigns or mutates; a method takes it *)
(* and returns it with its result.  raised = TRUE: the call ended in an    *)
(* exception that left the method.                                         *)
(***************************************************************************)
SM(n) == [enabled |-> enabled[n],
          allowed_node_keys |-> allowed_node_keys[n],
          blocked_node_keys |-> blocked_node_keys[n],
          blocked_ips |-> blocked_ips[n],
          config_mtime |-> config_mtime[n],
          blocked_nodes |-> blocked_nodes[n],
          connection_counts |-> connection_counts[n],
          connection_times |-> connection_times[n],
          message_counts |-> message_counts[n],
          authenticated_nodes |-> authenticated_nodes[n]]

Ret(ok, reason, sm) == [raised |-> FALSE, allowed |-> ok, reason |-> reason, sm |-> sm]
Raise(sm) == [raised |-> TRUE, allowed |-> FALSE, reason |-> "AttributeError", sm |-> sm]

RECURSIVE cleanup_old_timestamps(_, _, _)
cleanup_old_timestamps(timestamp_queue, current_time, window) ==
    IF timestamp_queue # <<>> /\ current_time - Head(timestamp_queue) > window
    THEN cleanup_old_timestamps(Tail(timestamp_queue), current_time, window)
    ELSE timestamp_queue

deque_append(q, x) == IF Len(q) >= DEQUE_MAXLEN THEN Append(Tail(q), x) ELSE Append(q, x)

is_connection_allowed(n, sm, ip_address, node_uuid) ==
    IF ~has_attrs[n] THEN Raise(sm)
    ELSE IF ~security_enabled[n] THEN Ret(TRUE, "Security disabled", sm)
    ELSE IF ip_address \in sm.blocked_ips THEN Ret(FALSE, "IP address blocked", sm)
    ELSE IF node_uuid # None /\ node_uuid \in sm.blocked_nodes
         THEN Ret(FALSE, "Node UUID blocked", sm)
    ELSE IF allowed_nodes[n] # {} /\ node_uuid # None /\ node_uuid \notin allowed_nodes[n]
         THEN Ret(FALSE, "Node UUID not in whitelist", sm)
    ELSE IF sm.connection_counts[ip_address] >= MAX_CONNECTIONS_PER_IP[n]
         THEN Ret(FALSE, "Too many connections from IP", sm)
    ELSE LET q == cleanup_old_timestamps(sm.connection_times[ip_address], now, WINDOW_TICKS)
             sm2 == [sm EXCEPT !.connection_times[ip_address] = q]
         IN  IF Len(q) >= CONNECTION_RATE_LIMIT[n]
             THEN Ret(FALSE, "Connection rate limit exceeded", sm2)
             ELSE Ret(TRUE, "Connection allowed", sm2)

register_connection(n, sm, ip_address) ==
    IF ~has_attrs[n] THEN Raise(sm)
    ELSE IF ~security_enabled[n] THEN Ret(TRUE, "", sm)
    ELSE Ret(TRUE, "",
             [sm EXCEPT !.connection_counts[ip_address] = @ + 1,
                        !.connection_times[ip_address] = deque_append(@, now)])

unregister_connection(n, sm, ip_address, node_uuid) ==
    IF ~has_attrs[n] THEN Raise(sm)
    ELSE IF ~security_enabled[n] THEN Ret(TRUE, "", sm)
    ELSE LET sm2 == IF sm.connection_counts[ip_address] > 0
                    THEN [sm EXCEPT !.connection_counts[ip_address] = @ - 1]
                    ELSE sm
         IN  \* authenticated_nodes is a dict: it has no discard
             IF node_uuid \in sm2.authenticated_nodes THEN Raise(sm2) ELSE Ret(TRUE, "", sm2)

\* is_message_allowed with the test of lines 285-288 lost
is_message_allowed_unauthenticated(n, sm, ip_address, node_uuid, message_type) ==
    IF ~has_attrs[n] THEN Raise(sm)
    ELSE IF ~security_enabled[n] THEN Ret(TRUE, "Security disabled", sm)
    ELSE LET q == cleanup_old_timestamps(sm.message_counts[ip_address], now, WINDOW_TICKS)
             sm2 == [sm EXCEPT !.message_counts[ip_address] = q]
         IN  IF Len(q) >= MESSAGE_RATE_LIMIT[n]
             THEN Ret(FALSE, "Message rate limit exceeded", sm2)
             ELSE Ret(TRUE, "Message allowed",
                      [sm2 EXCEPT !.message_counts[ip_address] = deque_append(@, now)])

is_message_allowed(n, sm, ip_address, node_uuid, message_type) ==
    IF ~has_attrs[n] THEN Raise(sm)
    ELSE IF ~security_enabled[n] THEN Ret(TRUE, "Security disabled", sm)
    ELSE IF /\ REQUIRE_NODE_AUTHENTICATION[n]
            /\ message_type \notin {"handshake_init", "handshake_response"}
            /\ node_uuid \notin sm.authenticated_nodes
         THEN Ret(FALSE, "Node not authenticated", sm)
    ELSE LET q == cleanup_old_timestamps(sm.message_counts[ip_address], now, WINDOW_TICKS)
             sm2 == [sm EXCEPT !.message_counts[ip_address] = q]
         IN  IF Len(q) >= MESSAGE_RATE_LIMIT[n]
             THEN Ret(FALSE, "Message rate limit exceeded", sm2)
             ELSE Ret(TRUE, "Message allowed",
                      [sm2 EXCEPT !.message_counts[ip_address] = deque_append(@, now)])

\* self.blocked_nodes.add(node_uuid), then self.authenticated_nodes.discard(node_uuid):
\* authenticated_nodes is a dict and has no discard, the call ends in AttributeError
\* after the node was added
add_blocked_node(n, sm, node_uuid) ==
    IF ~has_attrs[n] THEN Raise(sm)
    ELSE Raise([sm EXCEPT !.blocked_nodes = @ \cup {node_uuid}])

remove_blocked_node(n, sm, node_uuid) ==
    IF ~has_attrs[n] THEN Raise(sm)
    ELSE Ret(TRUE, "", [sm EXCEPT !.blocked_nodes = @ \ {node_uuid}])

add_blocked_ip(n, sm, ip_address) ==
    Ret(TRUE, "", [sm EXCEPT !.blocked_ips = @ \cup {ip_address}])

remove_blocked_ip(n, sm, ip_address) ==
    Ret(TRUE, "", [sm EXCEPT !.blocked_ips = @ \ {ip_address}])

(***************************************************************************)
(* A reading of time.time() is <<tick, e>>: the tick of the clock and the  *)
(* part below one tick (two readings within one handler may or may not     *)
(* return the same float).                                                 *)
(***************************************************************************)
NoTime == <<0, 0>>                     \* a missing, null or zero timestamp
TickOf(ts) == ts[1]

\* hmac.new(NETWORK_SECRET_KEY, "{node_uuid}:{timestamp}:{challenge}", sha256).hexdigest()
generate_auth_token(n, node_uuid, timestamp, challenge) ==
    IF NETWORK_SECRET_KEY[n] = "" THEN NoToken
    ELSE <<"hmac", NETWORK_SECRET_KEY[n], node_uuid, timestamp, challenge>>

\* authenticate_node with the test of lines 312-314 turned around: without a key
\* the call succeeds
authenticate_node_open_without_key(n, sm, node_uuid, auth_data) ==
    IF ~has_attrs[n] THEN Raise(sm)
    ELSE IF ~security_enabled[n] \/ ~REQUIRE_NODE_AUTHENTICATION[n]
         THEN Ret(TRUE, "Authentication not required", sm)
    ELSE IF NETWORK_SECRET_KEY[n] = "" THEN Ret(TRUE, "Authentication not required", sm)
    ELSE LET auth_token == Get(auth_data, "auth_token", NoToken)
             timestamp == Get(auth_data, "timestamp", NoTime)
             challenge == Get(auth_data, "challenge", node_uuid)
         IN  IF auth_token = NoToken \/ timestamp = NoTime
             THEN Ret(FALSE, "Missing authentication data", sm)
             ELSE IF Abs(now - TickOf(timestamp)) > REPLAY_TICKS
             THEN Ret(FALSE, "Authentication timestamp expired", sm)
             ELSE IF auth_token # generate_auth_token(n, node_uuid, timestamp, challenge)
             THEN Ret(FALSE, "Invalid authentication token", sm)
             ELSE Ret(FALSE, "Authentication error", sm)

\* authenticate_node with the test of line 327 lost
authenticate_node_no_expiry(n, sm, node_uuid, auth_data) ==
    IF ~has_attrs[n] THEN Raise(sm)
    ELSE IF ~security_enabled[n] \/ ~REQUIRE_NODE_AUTHENTICATION[n]
         THEN Ret(TRUE, "Authentication not required", sm)
    ELSE IF NETWORK_SECRET_KEY[n] = "" THEN Ret(FALSE, "Server configuration error", sm)
    ELSE LET auth_token == Get(auth_data, "auth_token", NoToken)
             timestamp == Get(auth_data, "timestamp", NoTime)
             challenge == Get(auth_data, "challenge", node_uuid)
         IN  IF auth_token = NoToken \/ timestamp = NoTime
             THEN Ret(FALSE, "Missing authentication data", sm)
             ELSE IF auth_token # generate_auth_token(n, node_uuid, timestamp, challenge)
             THEN Ret(FALSE, "Invalid authentication token", sm)
             ELSE Ret(FALSE, "Authentication error", sm)

authenticate_node(n, sm, node_uuid, auth_data) ==
    IF ~has_attrs[n] THEN Raise(sm)
    ELSE IF ~security_enabled[n] \/ ~REQUIRE_NODE_AUTHENTICATION[n]
         THEN Ret(TRUE, "Authentication not required", sm)
    ELSE IF NETWORK_SECRET_KEY[n] = "" THEN Ret(FALSE, "Server configuration error", sm)
    ELSE LET auth_token == Get(auth_data, "auth_token", NoToken)
             timestamp == Get(auth_data, "timestamp", NoTime)
             challenge == Get(auth_data, "challenge", node_uuid)
         IN  IF auth_token = NoToken \/ timestamp = NoTime
             THEN Ret(FALSE, "Missing authentication data", sm)
             ELSE IF Abs(now - TickOf(timestamp)) > REPLAY_TICKS
             THEN Ret(FALSE, "Authentication timestamp expired", sm)
             ELSE IF auth_token # generate_auth_token(n, node_uuid, timestamp, challenge)
             THEN Ret(FALSE, "Invalid authentication token", sm)
             \* self.authenticated_nodes.add(node_uuid): authenticated_nodes is a dict,
             \* the AttributeError is caught by the except clause of line 341
             ELSE Ret(FALSE, "Authentication error", sm)

generate_auth_challenge(n, node_uuid, challenge) ==
    IF ~security_enabled[n] \/ ~REQUIRE_NODE_AUTHENTICATION[n] THEN <<>>
    ELSE [auth_token |-> generate_auth_token(n, node_uuid, <<now, 0>>, challenge),
          timestamp |-> <<now, 0>>,
          challenge |-> challenge]

\* hmac.new(NETWORK_SECRET_KEY, "{node_uuid}:{json.dumps(message, sort_keys=True)}", sha256)
generate_message_signature(n, message, node_uuid) ==
    IF NETWORK_SECRET_KEY[n] = "" THEN NoToken
    ELSE <<"hmac", NETWORK_SECRET_KEY[n], node_uuid, message>>

\* verify_message_signature with the `del message_copy["signature"]` of line 386 lost
verify_message_signature_keeps_signature(n, message, node_uuid) ==
    IF ~ENABLE_MESSAGE_SIGNING[n] THEN TRUE
    ELSE IF REJECT_UNSIGNED_MESSAGES[n] /\ ~Has(message, "signature") THEN FALSE
    ELSE LET signature == Get(message, "signature", NoToken)
         IN  IF signature # NoToken
             THEN signature = generate_message_signature(n, message, node_uuid)
             ELSE ~REJECT_UNSIGNED_MESSAGES[n]

verify_message_signature(n, message, node_uuid) ==
    IF ~ENABLE_MESSAGE_SIGNING[n] THEN TRUE
    ELSE IF REJECT_UNSIGNED_MESSAGES[n] /\ ~Has(message, "signature") THEN FALSE
    ELSE LET signature == Get(message, "signature", NoToken)
         IN  IF signature # NoToken
             THEN signature = generate_message_signature(n, Without(message, "signature"), node_uuid)
             ELSE ~REJECT_UNSIGNED_MESSAGES[n]

sign_message(n, message, node_uuid) ==
    IF ~ENABLE_MESSAGE_SIGNING[n] THEN message
    ELSE With(message, "signature", generate_message_signature(n, message, node_uuid))

\* _load_configuration with one of the names it reads (ALLOWED_NODE_KEYS) rebound by
\* the reload to the value on disk, the others not
load_configuration_rebinds_one(n, sm) ==
    [sm EXCEPT !.enabled = ENABLE_P2P_SECURITY[n],
               !.allowed_node_keys = env_file[n][file_mtime[n]].ALLOWED_NODE_KEYS,
               !.blocked_node_keys = BLOCKED_NODE_KEYS[n],
               !.blocked_ips = BLOCKED_IP_ADDRESSES[n],
               !.config_mtime = file_mtime[n]]

\* _load_configuration reads the names security.py imported when it was loaded;
\* the re-import of check_config_reload binds names local to that function only.
load_configuration(n, sm) ==
    [sm EXCEPT !.enabled = ENABLE_P2P_SECURITY[n],
               !.allowed_node_keys = ALLOWED_NODE_KEYS[n],
               !.blocked_node_keys = BLOCKED_NODE_KEYS[n],
               !.blocked_ips = BLOCKED_IP_ADDRESSES[n],
               !.config_mtime = file_mtime[n]]

\* importlib.reload(server.server_config) and the import of lines 131-145 give new
\* values to names of server.server_config and of this call's frame, none of which
\* _load_configuration reads
check_config_reload(n, sm) ==
    IF file_mtime[n] > sm.config_mtime THEN load_configuration(n, sm) ELSE sm

\* reload_configuration that forgets the revision and does not look at the file again
reload_configuration_forgets(n, sm) ==
    [sm EXCEPT !.config_mtime = 0]

reload_configuration(n, sm) ==
    check_config_reload(n, [sm EXCEPT !.config_mtime = 0])

(***************************************************************************)
(* Factory and database (server/p2p/factory.py, server/database.py).       *)
(***************************************************************************)
NoWrites == [q \in Conns |-> <<>>]
NoRecord == [absent |-> TRUE]          \* retrieve_spammer_data_from_db found nothing

\* "true if uuid is already associated with a different, still-open connection"
is_duplicate_uuid(n, uuid, candidate) ==
    \E q \in Conns \ {candidate} : Owner(q) = n /\ st[q] = "open" /\ peer_uuid[q] = uuid

GunbanMessage(spammer_id, source_node_uuid) ==
    [type |-> "gunban", spammer_id |-> spammer_id,
     source_node_uuid |-> source_node_uuid, timestamp |-> <<now, 0>>]

\* the retraction is applied to the database, then the gunban is sent to every
\* connected peer but `exclude`
factory_gunban(n, spammer_id, source_node_uuid, exclude) ==
    [storage |-> [storage[n] EXCEPT ![spammer_id] = NoRecord],
     writes |-> [q \in Conns |->
                    IF q \in peers[n] \ {exclude}
                    THEN <<GunbanMessage(spammer_id, source_node_uuid)>>
                    ELSE <<>>]]

(***************************************************************************)
(* P2PProtocol (protocol.py).  A handler returns its effect: the fields of *)
(* the protocol instance, of its node's factory and manager after it, what *)
(* it wrote, and whether it called transport.loseConnection().             *)
(***************************************************************************)
Effect(n, p, sm) ==
    [sm |-> sm, peer_uuid |-> peer_uuid[p], handshake_complete |-> handshake_complete[p],
     processed_data |-> processed_data[p], known_uuids |-> known_uuids[n],
     storage |-> storage[n], deferred |-> deferred[p], timeout_call |-> timeout_call[p],
     writes |-> NoWrites, lose |-> FALSE, result |-> "ignored"]

Update(m, d) == [g \in (DOMAIN m) \cup (DOMAIN d) |-> IF g \in DOMAIN d THEN d[g] ELSE m[g]]

\* send_handshake_init / send_handshake_response build the same message but for its type
handshake_message(n, type, node_uuid, challenge, e) ==
    LET auth_challenge == generate_auth_challenge(n, node_uuid, challenge)
        m1 == Update([type |-> type, uuid |-> node_uuid], auth_challenge)
        m2 == With(m1, "node_version", "1.0.0")
        \* message["timestamp"] = time.time(): a second reading when auth_challenge took one
        m3 == With(m2, "timestamp", <<now, IF Has(auth_challenge, "timestamp") THEN e ELSE 0>>)
    IN  sign_message(n, m3, node_uuid)

send_handshake_init(n, challenge, e) ==
    handshake_message(n, "handshake_init", n, challenge, e)

send_handshake_response(n, node_uuid, challenge, e) ==
    handshake_message(n, "handshake_response", node_uuid, challenge, e)

\* the body of the handshake handlers with the re-check of lines 301-317 lost
handshake_checks_without_recheck(n, p, sm, data, response) ==
    LET uuid == data.uuid
        e0 == [Effect(n, p, sm) EXCEPT !.peer_uuid = uuid]
        au == authenticate_node(n, sm, uuid, data)
    IN  IF au.raised THEN [e0 EXCEPT !.result = "error"]
        ELSE IF ~au.allowed THEN [e0 EXCEPT !.sm = au.sm, !.lose = TRUE, !.result = "auth_failed"]
        ELSE IF uuid = n THEN [e0 EXCEPT !.sm = au.sm, !.lose = TRUE, !.result = "self"]
        ELSE IF is_duplicate_uuid(n, uuid, p)
             THEN [e0 EXCEPT !.sm = au.sm, !.lose = TRUE, !.result = "duplicate"]
        ELSE [e0 EXCEPT !.sm = au.sm, !.handshake_complete = TRUE,
                        !.known_uuids = @ \cup {uuid},
                        !.writes = [NoWrites EXCEPT ![p] = response],
                        !.result = "complete"]

\* the body shared by handle_handshake_init and handle_handshake_response
handshake_checks(n, p, sm, data, response) ==
    LET uuid == data.uuid
        e0 == [Effect(n, p, sm) EXCEPT !.peer_uuid = uuid]
        au == authenticate_node(n, sm, uuid, data)
        ca == is_connection_allowed(n, au.sm, host[p], uuid)
    IN  IF au.raised THEN [e0 EXCEPT !.result = "error"]
        ELSE IF ~au.allowed THEN [e0 EXCEPT !.sm = au.sm, !.lose = TRUE, !.result = "auth_failed"]
        ELSE IF ca.raised THEN [e0 EXCEPT !.sm = au.sm, !.result = "error"]
        ELSE IF ~ca.allowed THEN [e0 EXCEPT !.sm = ca.sm, !.lose = TRUE, !.result = "rejected"]
        ELSE IF uuid = n THEN [e0 EXCEPT !.sm = ca.sm, !.lose = TRUE, !.result = "self"]
        ELSE IF is_duplicate_uuid(n, uuid, p)
             THEN [e0 EXCEPT !.sm = ca.sm, !.lose = TRUE, !.result = "duplicate"]
        ELSE [e0 EXCEPT !.sm = ca.sm, !.handshake_complete = TRUE,
                        !.known_uuids = @ \cup {uuid},
                        !.writes = [NoWrites EXCEPT ![p] = response],
                        !.result = "complete"]

\* handle_handshake_init with the branch of line 341 lost: a duplicate completes
handle_handshake_init_admits_duplicate(n, p, sm, data, challenge, e) ==
    IF ~Has(data, "uuid") THEN [Effect(n, p, sm) EXCEPT !.result = "error"]
    ELSE LET r == handshake_checks(n, p, sm, data, <<send_handshake_response(n, n, challenge, e)>>)
         IN  IF r.result # "duplicate" THEN r
             ELSE [r EXCEPT !.lose = FALSE, !.handshake_complete = TRUE,
                            !.known_uuids = @ \cup {data.uuid}, !.result = "complete"]

\* handle_handshake_init with the branch of line 331 lost: a self-connection completes
handle_handshake_init_admits_self(n, p, sm, data, challenge, e) ==
    IF ~Has(data, "uuid") THEN [Effect(n, p, sm) EXCEPT !.result = "error"]
    ELSE LET r == handshake_checks(n, p, sm, data, <<send_handshake_response(n, n, challenge, e)>>)
         IN  IF r.result # "self" THEN r
             ELSE [r EXCEPT !.lose = FALSE, !.handshake_complete = TRUE,
                            !.known_uuids = @ \cup {data.uuid}, !.result = "complete"]

handle_handshake_init(n, p, sm, data, challenge, e) ==
    IF ~Has(data, "uuid") THEN [Effect(n, p, sm) EXCEPT !.result = "error"]   \* KeyError
    ELSE handshake_checks(n, p, sm, data, <<send_handshake_response(n, n, challenge, e)>>)

handle_handshake_response(n, p, sm, data) ==
    IF handshake_complete[p] THEN Effect(n, p, sm)
    ELSE IF ~Has(data, "uuid") THEN [Effect(n, p, sm) EXCEPT !.result = "error"]
    ELSE handshake_checks(n, p, sm, data, <<>>)

Falsy(v) == v = None \/ v = ""         \* `not v` for a string or None

\* handle_gunban_message with exclude=self lost: the relay goes to every peer
handle_gunban_message_to_all(n, p, sm, message) ==
    LET spammer_id == Get(message, "spammer_id", None)
        source_node == Get(message, "source_node_uuid", None)
    IN  IF Falsy(spammer_id) \/ Falsy(source_node)
        THEN [Effect(n, p, sm) EXCEPT !.result = "dropped"]
        ELSE LET g == factory_gunban(n, spammer_id, source_node, 0)
             IN  [Effect(n, p, sm) EXCEPT !.storage = g.storage, !.writes = g.writes,
                                          !.result = "gunban"]

\* handle_gunban_message that applies the retraction and relays to nobody
handle_gunban_message_no_relay(n, p, sm, message) ==
    LET spammer_id == Get(message, "spammer_id", None)
        source_node == Get(message, "source_node_uuid", None)
    IN  IF Falsy(spammer_id) \/ Falsy(source_node)
        THEN [Effect(n, p, sm) EXCEPT !.result = "dropped"]
        ELSE LET g == factory_gunban(n, spammer_id, source_node, p)
             IN  [Effect(n, p, sm) EXCEPT !.storage = g.storage, !.result = "gunban"]

\* handle_gunban_message that relays the gunban and leaves the record as it is
handle_gunban_message_keeps_record(n, p, sm, message) ==
    LET spammer_id == Get(message, "spammer_id", None)
        source_node == Get(message, "source_node_uuid", None)
    IN  IF Falsy(spammer_id) \/ Falsy(source_node)
        THEN [Effect(n, p, sm) EXCEPT !.result = "dropped"]
        ELSE LET g == factory_gunban(n, spammer_id, source_node, p)
             IN  [Effect(n, p, sm) EXCEPT !.writes = g.writes, !.result = "gunban"]

\* handle_gunban_message with the test of lines 247-249 lost
handle_gunban_message_without_source_test(n, p, sm, message) ==
    LET spammer_id == Get(message, "spammer_id", None)
        source_node == Get(message, "source_node_uuid", None)
    IN  IF Falsy(spammer_id)
        THEN [Effect(n, p, sm) EXCEPT !.result = "dropped"]
        ELSE LET g == factory_gunban(n, spammer_id, source_node, p)
             IN  [Effect(n, p, sm) EXCEPT !.storage = g.storage, !.writes = g.writes,
                                          !.result = "gunban"]

handle_gunban_message(n, p, sm, message) ==
    LET spammer_id == Get(message, "spammer_id", None)
        source_node == Get(message, "source_node_uuid", None)
    IN  IF Falsy(spammer_id) \/ Falsy(source_node)
        THEN [Effect(n, p, sm) EXCEPT !.result = "dropped"]
        ELSE LET g == factory_gunban(n, spammer_id, source_node, p)
             IN  [Effect(n, p, sm) EXCEPT !.storage = g.storage, !.writes = g.writes,
                                          !.result = "gunban"]

handle_unban_message(n, p, sm, message) ==
    LET spammer_id == Get(message, "spammer_id", None)
        source_node == Get(message, "source_node_uuid", None)
    IN  IF Falsy(spammer_id)
        THEN [Effect(n, p, sm) EXCEPT !.result = "dropped"]
        ELSE LET g == factory_gunban(n, spammer_id, source_node, p)
             IN  [Effect(n, p, sm) EXCEPT !.storage = g.storage, !.writes = g.writes,
                                          !.result = "gunban"]

handle_spammer_info_removal(n, p, sm, message) ==
    LET user_id == Get(message, "user_id", None)
    IN  IF Falsy(user_id)
        THEN [Effect(n, p, sm) EXCEPT !.result = "dropped"]
        ELSE LET g == factory_gunban(n, user_id, "legacy", p)
             IN  [Effect(n, p, sm) EXCEPT !.storage = g.storage, !.writes = g.writes,
                                          !.result = "gunban"]

(***************************************************************************)
(* Spammer records.  A JSON value of a record field is either an object or *)
(* the JSON text of an object (a str): [enc, v].                           *)
(***************************************************************************)
Obj(v) == [enc |-> "obj", v |-> v]
Str(v) == [enc |-> "str", v |-> v]
json_loads(x) == Obj(x.v)
json_dumps(x) == Str(x.v)
Parsed(x) == IF x.enc = "str" THEN json_loads(x) ELSE x     \* if isinstance(x, str): x = json.loads(x)
EmptyObj == Obj("{}")

\* hash(json.dumps(data, sort_keys=True)): equal for equal messages, taken to be
\* different for different ones
get_data_hash(data) == data

\* put(user_id, record)
factory_store_spammer_data(n, user_id, lols_bot_data, cas_chat_data, p2p_data, is_spammer) ==
    [storage[n] EXCEPT ![user_id] =
        [lols_bot_data |-> lols_bot_data, cas_chat_data |-> cas_chat_data,
         p2p_data |-> p2p_data, is_spammer |-> is_spammer]]

BroadcastMessage(user_id, rec) ==
    [type |-> "spammer_info_broadcast", user_id |-> user_id,
     lols_bot_data |-> Parsed(rec.lols_bot_data), cas_chat_data |-> Parsed(rec.cas_chat_data),
     p2p_data |-> Parsed(rec.p2p_data), is_spammer |-> rec.is_spammer]

\* "rebroadcast a fresh spammer_info_broadcast message to every other currently
\* connected peer (excluding the sender)"
factory_broadcast_spammer_info(n, db, user_id, sender) ==
    [q \in Conns |->
        IF q \in peers[n] \ {sender} /\ db[user_id] # NoRecord
        THEN <<BroadcastMessage(user_id, db[user_id])>>
        ELSE <<>>]

\* the comparison of lines 567-572 never finding the records equal
same_as_existing_never(lols_bot_data, cas_chat_data, p2p_data, is_spammer, existing_data) ==
    FALSE

\* the comparison of lines 567-572 with the json.loads of lines 556-563 lost: the
\* stored JSON texts are compared with the parsed objects
same_as_existing_unparsed(lols_bot_data, cas_chat_data, p2p_data, is_spammer, existing_data) ==
    /\ lols_bot_data = existing_data.lols_bot_data
    /\ cas_chat_data = existing_data.cas_chat_data
    /\ is_spammer = existing_data.is_spammer
    /\ p2p_data = existing_data.p2p_data

\* the comparison of lines 567-572
same_as_existing(lols_bot_data, cas_chat_data, p2p_data, is_spammer, existing_data) ==
    /\ lols_bot_data = Parsed(existing_data.lols_bot_data)
    /\ cas_chat_data = Parsed(existing_data.cas_chat_data)
    /\ is_spammer = existing_data.is_spammer
    /\ p2p_data = Parsed(existing_data.p2p_data)

\* lines 579-588 with the call of line 588 lost
store_without_broadcast(n, p, e, user_id, lols_bot_data, cas_chat_data, p2p_data, is_spammer) ==
    LET db == factory_store_spammer_data(n, user_id, json_dumps(lols_bot_data),
                  json_dumps(cas_chat_data), json_dumps(p2p_data), is_spammer)
    IN  [e EXCEPT !.storage = db, !.result = "stored"]

\* what handle_p2p_data does once the record is found new (lines 579-588)
store_and_broadcast(n, p, e, user_id, lols_bot_data, cas_chat_data, p2p_data, is_spammer) ==
    LET db == factory_store_spammer_data(n, user_id, json_dumps(lols_bot_data),
                  json_dumps(cas_chat_data), json_dumps(p2p_data), is_spammer)
    IN  [e EXCEPT !.storage = db, !.result = "stored",
                  !.writes = factory_broadcast_spammer_info(n, db, user_id, p)]

\* handle_p2p_data that stores a new record and relays it to nobody but the
\* connection it arrived on
handle_p2p_data_relays_to_sender(n, p, sm, data) ==
    IF Has(data, "user_id")
    THEN LET user_id == data.user_id
             data_hash == get_data_hash(data)
             e1 == [Effect(n, p, sm) EXCEPT !.processed_data = @ \cup {data_hash}]
             lols_bot_data == Parsed(Get(data, "lols_bot_data", EmptyObj))
             cas_chat_data == Parsed(Get(data, "cas_chat_data", EmptyObj))
             p2p_data == Parsed(Get(data, "p2p_data", EmptyObj))
             is_spammer == Get(data, "is_spammer", FALSE)
             existing_data == storage[n][user_id]
             db == factory_store_spammer_data(n, user_id, json_dumps(lols_bot_data),
                       json_dumps(cas_chat_data), json_dumps(p2p_data), is_spammer)
         IN  IF data_hash \in processed_data[p]
             THEN [Effect(n, p, sm) EXCEPT !.result = "seen"]
             ELSE IF /\ existing_data # NoRecord
                     /\ same_as_existing(lols_bot_data, cas_chat_data, p2p_data,
                                         is_spammer, existing_data)
             THEN [e1 EXCEPT !.result = "same"]
             ELSE [e1 EXCEPT !.storage = db, !.result = "stored",
                             !.writes = [NoWrites EXCEPT ![p] = <<BroadcastMessage(user_id, db[user_id])>>]]
    ELSE Effect(n, p, sm)

handle_p2p_data(n, p, sm, data) ==
    IF Has(data, "user_id")
    THEN LET user_id == data.user_id
             data_hash == get_data_hash(data)
             e1 == [Effect(n, p, sm) EXCEPT !.processed_data = @ \cup {data_hash}]
             lols_bot_data == Parsed(Get(data, "lols_bot_data", EmptyObj))
             cas_chat_data == Parsed(Get(data, "cas_chat_data", EmptyObj))
             p2p_data == Parsed(Get(data, "p2p_data", EmptyObj))
             is_spammer == Get(data, "is_spammer", FALSE)
             existing_data == storage[n][user_id]
         IN  IF data_hash \in processed_data[p]
             THEN [Effect(n, p, sm) EXCEPT !.result = "seen"]
             ELSE IF /\ existing_data # NoRecord
                     /\ same_as_existing(lols_bot_data, cas_chat_data, p2p_data,
                                         is_spammer, existing_data)
             THEN [e1 EXCEPT !.result = "same"]
             ELSE store_and_broadcast(n, p, e1, user_id, lols_bot_data, cas_chat_data,
                                      p2p_data, is_spammer)
    ELSE Effect(n, p, sm)

handle_check_p2p_data(n, p, sm, data) ==
    IF ~Has(data, "user_id") THEN [Effect(n, p, sm) EXCEPT !.result = "error"]   \* KeyError
    ELSE LET user_id == data.user_id
             spammer_data == storage[n][user_id]
             response ==
                 IF spammer_data # NoRecord
                 THEN With(BroadcastMessage(user_id, spammer_data), "type", "check_p2p_data_response")
                 ELSE [type |-> "check_p2p_data_response", user_id |-> user_id,
                       error |-> "No spammer data found"]
         IN  [Effect(n, p, sm) EXCEPT !.writes = [NoWrites EXCEPT ![p] = <<response>>],
                                      !.result = "answered"]

\* self.deferred.callback(...) on a Deferred that was already called raises
\* AlreadyCalledError: the handler is left before its `del self.deferred`
handle_check_p2p_data_response(n, p, sm, data) ==
    IF ~Has(data, "user_id") THEN [Effect(n, p, sm) EXCEPT !.result = "error"]   \* KeyError
    ELSE IF deferred[p] = "absent" THEN Effect(n, p, sm)
    ELSE IF deferred[p] = "called" THEN [Effect(n, p, sm) EXCEPT !.result = "error"]
    ELSE [Effect(n, p, sm) EXCEPT !.deferred = "absent",
                                  !.timeout_call = IF @ = "active" THEN "cancelled" ELSE @,
                                  !.result = "resolved"]

(***************************************************************************)
(* dataReceived, for one JSON object of the read.                          *)
(***************************************************************************)
Handlers == [handshake_init |-> "handle_handshake_init",
             handshake_response |-> "handle_handshake_response",
             check_p2p_data |-> "handle_check_p2p_data",
             check_p2p_data_response |-> "handle_check_p2p_data_response",
             spammer_info_broadcast |-> "handle_p2p_data",
             spammer_info_removal |-> "handle_spammer_info_removal",
             unban |-> "handle_unban_message",
             gunban |-> "handle_gunban_message"]

\* dispatch with the else branch of lines 181-192 closing the connection
dispatch_closes_unknown(n, p, sm, message, message_type, challenge, e) ==
    IF message_type = "handshake_init" THEN handle_handshake_init(n, p, sm, message, challenge, e)
    ELSE IF message_type = "handshake_response" THEN handle_handshake_response(n, p, sm, message)
    ELSE IF message_type = "check_p2p_data" THEN handle_check_p2p_data(n, p, sm, message)
    ELSE IF message_type = "check_p2p_data_response"
         THEN handle_check_p2p_data_response(n, p, sm, message)
    ELSE IF message_type = "spammer_info_broadcast" THEN handle_p2p_data(n, p, sm, message)
    ELSE IF message_type = "spammer_info_removal" THEN handle_spammer_info_removal(n, p, sm, message)
    ELSE IF message_type = "unban" THEN handle_unban_message(n, p, sm, message)
    ELSE IF message_type = "gunban" THEN handle_gunban_message(n, p, sm, message)
    ELSE [Effect(n, p, sm) EXCEPT !.lose = TRUE, !.result = "unknown_type"]

dispatch(n, p, sm, message, message_type, challenge, e) ==
    IF message_type = "handshake_init" THEN handle_handshake_init(n, p, sm, message, challenge, e)
    ELSE IF message_type = "handshake_response" THEN handle_handshake_response(n, p, sm, message)
    ELSE IF message_type = "check_p2p_data" THEN handle_check_p2p_data(n, p, sm, message)
    ELSE IF message_type = "check_p2p_data_response"
         THEN handle_check_p2p_data_response(n, p, sm, message)
    ELSE IF message_type = "spammer_info_broadcast" THEN handle_p2p_data(n, p, sm, message)
    ELSE IF message_type = "spammer_info_removal" THEN handle_spammer_info_removal(n, p, sm, message)
    ELSE IF message_type = "unban" THEN handle_unban_message(n, p, sm, message)
    ELSE IF message_type = "gunban" THEN handle_gunban_message(n, p, sm, message)
    ELSE [Effect(n, p, sm) EXCEPT !.result = "unknown_type"]

\* dataReceived with the `continue` of lines 138 and 149 preceded by
\* transport.loseConnection()
dataReceived_closes_on_drop(n, p, message, challenge, e) ==
    LET message_type == Get(message, "type", "unknown")
        uuid == IF peer_uuid[p] = None THEN "unknown" ELSE peer_uuid[p]
        ma == is_message_allowed(n, SM(n), host[p], uuid, message_type)
    IN  IF ma.raised
        THEN [handler |-> "none", effect |-> [Effect(n, p, SM(n)) EXCEPT !.result = "error"]]
        ELSE IF ~ma.allowed
        THEN [handler |-> "none",
              effect |-> [Effect(n, p, ma.sm) EXCEPT !.lose = TRUE, !.result = "message_rejected"]]
        ELSE IF ~verify_message_signature(n, message, uuid)
        THEN [handler |-> "none",
              effect |-> [Effect(n, p, ma.sm) EXCEPT !.lose = TRUE, !.result = "invalid_signature"]]
        ELSE [handler |-> IF message_type \in DOMAIN Handlers THEN Handlers[message_type] ELSE "none",
              effect |-> dispatch(n, p, ma.sm, message, message_type, challenge, e)]

\* [handler: the handler the object was dispatched to, or "none"; effect]
dataReceived(n, p, message, challenge, e) ==
    LET message_type == Get(message, "type", "unknown")
        uuid == IF peer_uuid[p] = None THEN "unknown" ELSE peer_uuid[p]
        ma == is_message_allowed(n, SM(n), host[p], uuid, message_type)
    IN  IF ma.raised
        THEN [handler |-> "none", effect |-> [Effect(n, p, SM(n)) EXCEPT !.result = "error"]]
        ELSE IF ~ma.allowed
        THEN [handler |-> "none", effect |-> [Effect(n, p, ma.sm) EXCEPT !.result = "message_rejected"]]
        ELSE IF ~verify_message_signature(n, message, uuid)
        THEN [handler |-> "none", effect |-> [Effect(n, p, ma.sm) EXCEPT !.result = "invalid_signature"]]
        ELSE [handler |-> IF message_type \in DOMAIN Handlers THEN Handlers[message_type] ELSE "none",
              effect |-> dispatch(n, p, ma.sm, message, message_type, challenge, e)]

(***************************************************************************)
(* Actions.                                                                *)
(***************************************************************************)
Challenges == {"c1"}                   \* str(uuid.uuid4())
FineBits == {0, 1}
\* the second int(time.time()) of send_handshake_init/_response can fall in a later
\* second than the one inside generate_auth_challenge; without authentication there
\* is a single reading
SubTicks(n) == IF REQUIRE_NODE_AUTHENTICATION[n] THEN FineBits ELSE {0}
NoData == <<>>                         \* last.data of a step whose message no property looks at
NoHandshake == <<"none", None>>        \* hs_result of a connection no handshake ran to a verdict on
Closed == {"closed", "lost"}           \* connectionLost ran: after loseConnection / without it

SetSM(n, sm) ==
    /\ enabled' = [enabled EXCEPT ![n] = sm.enabled]
    /\ allowed_node_keys' = [allowed_node_keys EXCEPT ![n] = sm.allowed_node_keys]
    /\ blocked_node_keys' = [blocked_node_keys EXCEPT ![n] = sm.blocked_node_keys]
    /\ blocked_ips' = [blocked_ips EXCEPT ![n] = sm.blocked_ips]
    /\ config_mtime' = [config_mtime EXCEPT ![n] = sm.config_mtime]
    /\ blocked_nodes' = [blocked_nodes EXCEPT ![n] = sm.blocked_nodes]
    /\ connection_counts' = [connection_counts EXCEPT ![n] = sm.connection_counts]
    /\ connection_times' = [connection_times EXCEPT ![n] = sm.connection_times]
    /\ message_counts' = [message_counts EXCEPT ![n] = sm.message_counts]
    /\ authenticated_nodes' = [authenticated_nodes EXCEPT ![n] = sm.authenticated_nodes]
    /\ UNCHANGED <<has_attrs, security_enabled, allowed_nodes>>

\* transport.write: `writes` go out on the transports; `consumed` is the connection
\* whose first object in flight was read (0: none)
Send(writes, consumed) ==
    /\ out' = writes
    /\ inbox' = [q \in Conns |->
                    LET rest == IF q = consumed THEN Tail(inbox[q]) ELSE inbox[q]
                    IN  IF q \in NodeConns /\ st[q] \notin Closed
                        THEN rest \o writes[Remote(q)]
                        ELSE rest]

\* connectionMade with lines 34 and 37 swapped: the admission check runs on the
\* configuration as it was before the reload check
ConnectionMade_checks_before_reload(p) ==
    \E h \in (IF p \in EnvConns THEN EnvHosts ELSE {NodeHost(Owner(Remote(p)))}),
       challenge \in Challenges, e \in SubTicks(Owner(p)) :
    LET n == Owner(p)
        ca == is_connection_allowed(n, SM(n), h, None)
        sm1 == check_config_reload(n, ca.sm)
        rg == register_connection(n, sm1, h)
    IN  /\ st[p] = "idle"
        /\ host' = [host EXCEPT ![p] = h]
        /\ UNCHANGED <<known_uuids, storage, peer_uuid, handshake_complete, processed_data,
                       waiterVars, hs_result, cfgVars, envVars, admitted, readVars>>
        /\ attempts' = IF ~ca.raised /\ ca.allowed
                       THEN [attempts EXCEPT ![n][h] = Append(@, now)] ELSE attempts
        /\ IF ca.raised
           THEN /\ st' = [st EXCEPT ![p] = "open"]
                /\ SetSM(n, sm1)
                /\ UNCHANGED peers
                /\ Send(NoWrites, 0)
                /\ last' = [handler |-> "connectionMade", conn |-> p, result |-> "error",
                            data |-> NoData]
           ELSE IF ~ca.allowed
           THEN /\ st' = [st EXCEPT ![p] = "closing"]
                /\ SetSM(n, sm1)
                /\ UNCHANGED peers
                /\ Send(NoWrites, 0)
                /\ last' = [handler |-> "connectionMade", conn |-> p, result |-> "rejected",
                            data |-> NoData]
           ELSE /\ st' = [st EXCEPT ![p] = "open"]
                /\ SetSM(n, rg.sm)
                /\ peers' = [peers EXCEPT ![n] = @ \cup {p}]
                /\ Send([NoWrites EXCEPT ![p] = <<send_handshake_init(n, challenge, e)>>], 0)
                /\ last' = [handler |-> "connectionMade", conn |-> p, result |-> "admitted",
                            data |-> NoData]

ConnectionMade(p) ==
    \E h \in (IF p \in EnvConns THEN EnvHosts ELSE {NodeHost(Owner(Remote(p)))}),
       challenge \in Challenges, e \in SubTicks(Owner(p)) :
    LET n == Owner(p)
        sm1 == check_config_reload(n, SM(n))
        ca == is_connection_allowed(n, sm1, h, None)
        rg == register_connection(n, ca.sm, h)
    IN  /\ st[p] = "idle"
        /\ host' = [host EXCEPT ![p] = h]
        /\ UNCHANGED <<known_uuids, storage, peer_uuid, handshake_complete, processed_data,
                       waiterVars, hs_result, cfgVars, envVars, admitted, readVars>>
        /\ attempts' = IF ~ca.raised /\ ca.allowed
                       THEN [attempts EXCEPT ![n][h] = Append(@, now)] ELSE attempts
        /\ IF ca.raised
           THEN \* the AttributeError leaves connectionMade
                /\ st' = [st EXCEPT ![p] = "open"]
                /\ SetSM(n, sm1)
                /\ UNCHANGED peers
                /\ Send(NoWrites, 0)
                /\ last' = [handler |-> "connectionMade", conn |-> p, result |-> "error",
                            data |-> NoData]
           ELSE IF ~ca.allowed
           THEN /\ st' = [st EXCEPT ![p] = "closing"]
                /\ SetSM(n, ca.sm)
                /\ UNCHANGED peers
                /\ Send(NoWrites, 0)
                /\ last' = [handler |-> "connectionMade", conn |-> p, result |-> "rejected",
                            data |-> NoData]
           ELSE /\ st' = [st EXCEPT ![p] = "open"]
                /\ SetSM(n, rg.sm)
                /\ peers' = [peers EXCEPT ![n] = @ \cup {p}]
                /\ Send([NoWrites EXCEPT ![p] = <<send_handshake_init(n, challenge, e)>>], 0)
                /\ last' = [handler |-> "connectionMade", conn |-> p, result |-> "admitted",
                            data |-> NoData]

\* the body of the for loop of dataReceived for an object that json.loads parsed
Handle(p, message, consumed) ==
    \E challenge \in Challenges, e \in SubTicks(Owner(p)) :
    LET n == Owner(p)
        r == dataReceived(n, p, message, challenge, e)
        eff == r.effect
        ma == is_message_allowed(n, SM(n), host[p],
                                 IF peer_uuid[p] = None THEN "unknown" ELSE peer_uuid[p],
                                 Get(message, "type", "unknown"))
    IN  /\ st[p] \in {"open", "closing"}
        /\ SetSM(n, eff.sm)
        /\ peer_uuid' = [peer_uuid EXCEPT ![p] = eff.peer_uuid]
        /\ handshake_complete' = [handshake_complete EXCEPT ![p] = eff.handshake_complete]
        /\ processed_data' = [processed_data EXCEPT ![p] = eff.processed_data]
        /\ deferred' = [deferred EXCEPT ![p] = eff.deferred]
        /\ timeout_call' = [timeout_call EXCEPT ![p] = eff.timeout_call]
        /\ resolutions' = [resolutions EXCEPT ![p] = IF eff.result = "resolved" THEN @ + 1 ELSE @]
        /\ known_uuids' = [known_uuids EXCEPT ![n] = eff.known_uuids]
        /\ storage' = [storage EXCEPT ![n] = eff.storage]
        /\ st' = [st EXCEPT ![p] = IF eff.lose THEN "closing" ELSE @]
        /\ Send(eff.writes, consumed)
        /\ last' = [handler |-> r.handler, conn |-> p, result |-> eff.result,
                    data |-> IF \/ r.handler \in {"handle_p2p_data", "handle_unban_message",
                                                 "handle_spammer_info_removal"}
                                \/ /\ REQUIRE_NODE_AUTHENTICATION[n]
                                   /\ r.handler \in {"handle_handshake_init", "handle_handshake_response"}
                             THEN message ELSE NoData]
        /\ hs_result' = [hs_result EXCEPT ![p] =
                            IF /\ r.handler \in {"handle_handshake_init", "handle_handshake_response"}
                               /\ eff.result \notin {"ignored", "error"}
                            THEN <<eff.result, eff.peer_uuid>> ELSE @]
        /\ admitted' = IF ma.reason = "Message allowed"
                       THEN [admitted EXCEPT ![n][host[p]] =
                                Append(SelectSeq(@, LAMBDA t : now - t <= WINDOW_TICKS), now)]
                       ELSE admitted
        /\ UNCHANGED <<peers, host, cfgVars, envVars, attempts>>

\* a read that holds one JSON object is handled on connection p
Receive(p, message, consumed) ==
    /\ Handle(p, message, consumed)
    /\ UNCHANGED readVars

(***************************************************************************)
(* Reads.  The bytes of a read are a sequence of pieces: the text of a     *)
(* JSON object ("obj"), brace-balanced text that is not JSON ("bad"), the   *)
(* first bytes of an object whose rest is in the next read ("head", last   *)
(* in its read) and that rest ("tail", first in its read).                 *)
(***************************************************************************)
ObjPiece(m) == [kind |-> "obj", m |-> m]
BadPiece == [kind |-> "bad"]
HeadPiece(m) == [kind |-> "head", m |-> m]
TailPiece(m) == [kind |-> "tail", m |-> m]

\* a json_string: json.loads returns m for it, or raises JSONDecodeError
Text(m) == [ok |-> TRUE, m |-> m]
NotJson == [ok |-> FALSE]

\* split_json_objects cuts the string of one read at the boundaries of its
\* brace-balanced pieces; it is called with that string alone, so a piece of an
\* object that another read completes is either left out (keep = FALSE) or
\* returned as it is (keep = TRUE), and is not JSON
RECURSIVE split_json_pieces(_, _)
split_json_pieces(read, keep) ==
    IF read = <<>> THEN <<>>
    ELSE LET piece == Head(read)
             rest == split_json_pieces(Tail(read), keep)
         IN  IF piece.kind = "obj" THEN <<Text(piece.m)>> \o rest
             ELSE IF piece.kind = "bad" \/ keep THEN <<NotJson>> \o rest
             ELSE rest

split_json_objects(read) == {split_json_pieces(read, keep) : keep \in BOOLEAN}

RECURSIVE WholeObjects(_)
WholeObjects(read) ==
    IF read = <<>> THEN <<>>
    ELSE IF Head(read).kind = "obj" THEN <<Head(read).m>> \o WholeObjects(Tail(read))
    ELSE WholeObjects(Tail(read))

\* dataReceived is called with the bytes of one read: lines 111-113
ReadArrives(p, read) ==
    /\ st[p] = "open"
    /\ pending[p] = <<>>
    /\ nreads[p] < MaxReads
    /\ \E json_strings \in split_json_objects(read) :
          pending' = [pending EXCEPT ![p] = json_strings]
    /\ bound' = [bound EXCEPT ![p] = FALSE]
    /\ nreads' = [nreads EXCEPT ![p] = @ + 1]
    /\ arrived' = [arrived EXCEPT ![p] = @ \o WholeObjects(read)]
    /\ fragment' = [fragment EXCEPT ![p] =
                        IF Head(read).kind = "tail" THEN "whole"
                        ELSE IF read[Len(read)].kind = "head" THEN "head"
                        ELSE @]
    /\ out' = NoWrites
    /\ last' = [handler |-> "dataReceived", conn |-> p, result |-> "read", data |-> NoData]
    /\ UNCHANGED <<factoryVars, protoVars, waiterVars, policyVars, attrVars, rtVars, cfgVars,
                   envVars, hs_result, attempts, admitted, dispatched>>

\* one iteration of the for loop of line 118
ReadStep(p) ==
    /\ pending[p] # <<>>
    /\ LET json_string == Head(pending[p])
       IN  IF json_string.ok
           THEN \* lines 120-192
                /\ Handle(p, json_string.m, 0)
                /\ pending' = [pending EXCEPT ![p] = Tail(@)]
                /\ bound' = [bound EXCEPT ![p] = TRUE]
                /\ dispatched' = [dispatched EXCEPT ![p] =
                                      IF last'.handler # "none"
                                      THEN Append(@, json_string.m) ELSE @]
                /\ UNCHANGED <<nreads, arrived, fragment>>
           ELSE IF bound[p]
           THEN \* lines 193-206: the error is logged, the loop goes on
                /\ pending' = [pending EXCEPT ![p] = Tail(@)]
                /\ out' = NoWrites
                /\ last' = [handler |-> "none", conn |-> p, result |-> "json_decode_error",
                            data |-> NoData]
                /\ UNCHANGED <<factoryVars, protoVars, waiterVars, policyVars, attrVars, rtVars,
                               cfgVars, envVars, hs_result, attempts, admitted,
                               bound, nreads, arrived, dispatched, fragment>>
           ELSE \* line 206 reads `message`, which no iteration of this call has
                \* assigned: UnboundLocalError is raised inside the except clause
                \* and leaves dataReceived; the reactor closes the transport
                /\ pending' = [pending EXCEPT ![p] = <<>>]
                /\ st' = [st EXCEPT ![p] = "closing"]
                /\ out' = NoWrites
                /\ last' = [handler |-> "none", conn |-> p, result |-> "unbound_local_error",
                            data |-> NoData]
                /\ UNCHANGED <<factoryVars, host, peer_uuid, handshake_complete, processed_data,
                               inbox, waiterVars, policyVars, attrVars, rtVars,
                               cfgVars, envVars, hs_result, attempts, admitted,
                               bound, nreads, arrived, dispatched, fragment>>

\* a connection end of a node of the model reads what its peer wrote
NodeData(p) ==
    /\ p \in NodeConns
    /\ inbox[p] # <<>>
    /\ Receive(p, Head(inbox[p]), p)

ConnectionLost(p) ==
    LET n == Owner(p)
        un == unregister_connection(n, SM(n), host[p], peer_uuid[p])
        left == peers[n] \ {p}
    IN  /\ st[p] \in {"open", "closing"}
        /\ st' = [st EXCEPT ![p] = IF @ = "closing" THEN "closed" ELSE "lost"]
        /\ SetSM(n, un.sm)
        /\ peers' = [peers EXCEPT ![n] = IF un.raised THEN @ ELSE left]
        /\ out' = NoWrites
        /\ inbox' = [inbox EXCEPT ![p] = <<>>]
        /\ last' = [handler |-> "connectionLost", conn |-> p,
                    result |-> IF un.raised THEN "error"
                               ELSE IF left = {} THEN "reconnect_to_bootstrap" ELSE "done",
                    data |-> NoData]
        \* the protocol instance is gone with its transport
        /\ host' = [host EXCEPT ![p] = None]
        /\ peer_uuid' = [peer_uuid EXCEPT ![p] = None]
        /\ handshake_complete' = [handshake_complete EXCEPT ![p] = FALSE]
        /\ processed_data' = [processed_data EXCEPT ![p] = {}]
        \* lines 616-626; not reached when unregister_connection raised
        /\ deferred' = [deferred EXCEPT ![p] = IF un.raised THEN @ ELSE "absent"]
        /\ resolutions' = [resolutions EXCEPT ![p] =
                              IF ~un.raised /\ deferred[p] = "pending" THEN @ + 1 ELSE @]
        /\ UNCHANGED <<known_uuids, storage, timeout_call, hs_result, cfgVars, envVars, attempts, admitted, readVars>>

Tick ==
    /\ now < 1 + MaxTime
    /\ now' = now + 1
    /\ UNCHANGED <<factoryVars, protoVars, waiterVars, policyVars, attrVars, rtVars, cfgVars,
                   file_mtime, env_file, orig, obsVars, attempts, admitted, readVars>>

\* the configuration file is written: its node lists become `policy`
EditConfig(n, policy) ==
    /\ file_mtime[n] < 1 + MaxMtime
    /\ file_mtime' = [file_mtime EXCEPT ![n] = @ + 1]
    /\ env_file' = [env_file EXCEPT ![n] = Append(@, policy)]
    /\ UNCHANGED <<factoryVars, protoVars, waiterVars, policyVars, attrVars, rtVars, cfgVars,
                   now, orig, obsVars, attempts, admitted, readVars>>

\* SECURITY_MANAGER.reload_configuration() is called (utils/reload_security.py)
ReloadConfiguration(n) ==
    /\ SetSM(n, reload_configuration(n, SM(n)))
    /\ out' = NoWrites
    /\ last' = [handler |-> "reload_configuration", conn |-> 0,
                result |-> IF file_mtime[n] > 0 THEN "reloaded" ELSE "unchanged",
                data |-> NoData]
    /\ UNCHANGED <<factoryVars, st, host, peer_uuid, handshake_complete, processed_data, inbox,
                   waiterVars, cfgVars, envVars, hs_result, attempts, admitted, readVars>>

\* a method of SECURITY_MANAGER that edits the in-memory blacklist is called;
\* r is what the method returned
BlacklistCall(n, method, arg, r) ==
    /\ SetSM(n, r.sm)
    /\ out' = NoWrites
    /\ last' = [handler |-> method, conn |-> 0,
                result |-> IF r.raised THEN "error" ELSE "done", data |-> arg]
    /\ UNCHANGED <<factoryVars, st, host, peer_uuid, handshake_complete, processed_data, inbox,
                   waiterVars, cfgVars, envVars, hs_result, attempts, admitted, readVars>>

AddBlockedNode(n, node_uuid) ==
    BlacklistCall(n, "add_blocked_node", node_uuid, add_blocked_node(n, SM(n), node_uuid))

RemoveBlockedNode(n, node_uuid) ==
    BlacklistCall(n, "remove_blocked_node", node_uuid, remove_blocked_node(n, SM(n), node_uuid))

AddBlockedIp(n, ip_address) ==
    BlacklistCall(n, "add_blocked_ip", ip_address, add_blocked_ip(n, SM(n), ip_address))

RemoveBlockedIp(n, ip_address) ==
    BlacklistCall(n, "remove_blocked_ip", ip_address, remove_blocked_ip(n, SM(n), ip_address))

(***************************************************************************)
(* Initial states.  A configuration c gives the server_config values and   *)
(* the manager's attributes of every node.                                 *)
(***************************************************************************)
\* the values .env gives to the names _load_configuration copies
Policy(e, allowed, blocked, ips) ==
    [ENABLE_P2P_SECURITY |-> e, ALLOWED_NODE_KEYS |-> allowed,
     BLOCKED_NODE_KEYS |-> blocked, BLOCKED_IP_ADDRESSES |-> ips]

BaseConfig ==
    [has_attrs |-> TRUE, security_enabled |-> TRUE, enabled |-> TRUE,
     allowed_nodes |-> {}, blocked_nodes |-> {},
     allowed_node_keys |-> {}, blocked_node_keys |-> {}, blocked_ips |-> {},
     auth |-> FALSE, key |-> "k1", max_conn |-> 3, conn_rate |-> 3, msg_rate |-> 3,
     signing |-> FALSE, reject_unsigned |-> FALSE]

InitWith(c, db) ==
    /\ peers = [n \in Nodes |-> {}]
    /\ known_uuids = [n \in Nodes |-> {}]
    /\ storage = [n \in Nodes |-> db]
    /\ st = [p \in Conns |-> "idle"]
    /\ host = [p \in Conns |-> None]
    /\ peer_uuid = [p \in Conns |-> None]
    /\ handshake_complete = [p \in Conns |-> FALSE]
    /\ processed_data = [p \in Conns |-> {}]
    /\ inbox = [p \in Conns |-> <<>>]
    /\ enabled = [n \in Nodes |-> c.enabled]
    /\ allowed_node_keys = [n \in Nodes |-> c.allowed_node_keys]
    /\ blocked_node_keys = [n \in Nodes |-> c.blocked_node_keys]
    /\ blocked_ips = [n \in Nodes |-> c.blocked_ips]
    /\ config_mtime = [n \in Nodes |-> 1]
    /\ has_attrs = [n \in Nodes |-> c.has_attrs]
    /\ security_enabled = [n \in Nodes |-> c.security_enabled]
    /\ blocked_nodes = [n \in Nodes |-> c.blocked_nodes]
    /\ allowed_nodes = [n \in Nodes |-> c.allowed_nodes]
    /\ connection_counts = [n \in Nodes |-> [h \in Hosts |-> 0]]
    /\ connection_times = [n \in Nodes |-> [h \in Hosts |-> <<>>]]
    /\ message_counts = [n \in Nodes |-> [h \in Hosts |-> <<>>]]
    /\ authenticated_nodes = [n \in Nodes |-> {}]
    /\ ENABLE_P2P_SECURITY = [n \in Nodes |-> c.enabled]
    /\ ALLOWED_NODE_KEYS = [n \in Nodes |-> c.allowed_node_keys]
    /\ BLOCKED_NODE_KEYS = [n \in Nodes |-> c.blocked_node_keys]
    /\ BLOCKED_IP_ADDRESSES = [n \in Nodes |-> c.blocked_ips]
    /\ REQUIRE_NODE_AUTHENTICATION = [n \in Nodes |-> c.auth]
    /\ NETWORK_SECRET_KEY = [n \in Nodes |-> c.key]
    /\ MAX_CONNECTIONS_PER_IP = [n \in Nodes |-> c.max_conn]
    /\ CONNECTION_RATE_LIMIT = [n \in Nodes |-> c.conn_rate]
    /\ MESSAGE_RATE_LIMIT = [n \in Nodes |-> c.msg_rate]
    /\ ENABLE_MESSAGE_SIGNING = [n \in Nodes |-> c.signing]
    /\ REJECT_UNSIGNED_MESSAGES = [n \in Nodes |-> c.reject_unsigned]
    /\ now = 1
    /\ file_mtime = [n \in Nodes |-> 1]
    /\ env_file = [n \in Nodes |-> <<Policy(c.enabled, c.allowed_node_keys, c.blocked_node_keys,
                                             c.blocked_ips)>>]
    /\ deferred = [p \in Conns |-> "absent"]
    /\ timeout_call = [p \in Conns |-> None]
    /\ resolutions = [p \in Conns |-> 0]
    /\ attempts = [n \in Nodes |-> [h \in Hosts |-> <<>>]]
    /\ admitted = [n \in Nodes |-> [h \in Hosts |-> <<>>]]
    /\ pending = [p \in Conns |-> <<>>]
    /\ bound = [p \in Conns |-> FALSE]
    /\ nreads = [p \in Conns |-> 0]
    /\ arrived = [p \in Conns |-> <<>>]
    /\ dispatched = [p \in Conns |-> <<>>]
    /\ fragment = [p \in Conns |-> "none"]
    /\ orig = 0
    /\ last = [handler |-> "none", conn |-> 0, result |-> "", data |-> NoData]
    /\ out = NoWrites
    /\ hs_result = [p \in Conns |-> NoHandshake]

(***************************************************************************)
(* What an outside peer may send (the input alphabet of the model).        *)
(***************************************************************************)
EnvUUIDs == {"A", "B", "X"}            \* "A": the uuid of the node itself

\* m unsigned, signed under the uuid the receiver verifies with, and signed
\* under the uuid the message carries
Signings(n, p, m) ==
    IF ~ENABLE_MESSAGE_SIGNING[n] THEN {m}
    ELSE {m} \cup
         {With(m, "signature", <<"hmac", NETWORK_SECRET_KEY[n], u, m>>) :
             u \in {IF peer_uuid[p] = None THEN "unknown" ELSE peer_uuid[p]}
                   \cup (IF Has(m, "uuid") THEN {m.uuid} ELSE {})}

HandshakeInputs(n) ==
    LET plain == {[type |-> t, uuid |-> u, node_version |-> "1.0.0", timestamp |-> <<now, 0>>] :
                     t \in {"handshake_init", "handshake_response"}, u \in EnvUUIDs}
        \* the fields an honest holder of the key adds (generate_auth_challenge at its end)
        authed == {Update(m, [auth_token |-> <<"hmac", NETWORK_SECRET_KEY[n], m.uuid, <<now, 0>>, "c1">>,
                              challenge |-> "c1", timestamp |-> <<now, e>>]) :
                      m \in plain, e \in FineBits}
    IN  plain \cup (IF REQUIRE_NODE_AUTHENTICATION[n] THEN authed ELSE {})
              \cup {[type |-> "handshake_init"]}

GunbanInputs ==
    {GunbanMessage("u1", "X"),
     [type |-> "gunban", spammer_id |-> "u1"],
     [type |-> "gunban", source_node_uuid |-> "X"],
     [type |-> "unban", spammer_id |-> "u1", source_node_uuid |-> "X"],
     [type |-> "unban", spammer_id |-> "u1"],
     [type |-> "spammer_info_removal", user_id |-> "u1"],
     [type |-> "bogus"]}

Rec(l, c, d, f) ==
    [lols_bot_data |-> Str(l), cas_chat_data |-> Str(c), p2p_data |-> Str(d), is_spammer |-> f]
R1 == Rec("a", "a", "a", TRUE)

\* bytes arrive on a connection whose other end is an outside peer
EnvData(p) ==
    /\ p \in EnvConns
    /\ \E m0 \in HandshakeInputs(Owner(p)) \cup GunbanInputs :
       \E m \in Signings(Owner(p), p, m0) : Receive(p, m, 0)

(***************************************************************************)
(* Spec: node "A" and the connections outside peers open to it.            *)
(***************************************************************************)
Configs ==
    {[BaseConfig EXCEPT !.has_attrs = FALSE],
     [BaseConfig EXCEPT !.security_enabled = FALSE],
     BaseConfig,
     [BaseConfig EXCEPT !.max_conn = 2]}

Init == \E c \in Configs : InitWith(c, [u \in Users |-> R1])

Next ==
    \/ \E p \in EnvConns : ConnectionMade(p)
    \/ \E p \in EnvConns : EnvData(p)
    \/ \E p \in EnvConns : ConnectionLost(p)

Spec == Init /\ [][Next]_vars

(***************************************************************************)
(* Properties of Spec.                                                     *)
(***************************************************************************)
RelayHandlers == {"handle_gunban_message", "handle_unban_message", "handle_spammer_info_removal"}
HandshakeHandlers == {"handle_handshake_init", "handle_handshake_response"}
Gunbans(w) == {i \in 1 .. Len(w) : Get(w[i], "type", "") = "gunban"}

\* C1: a gunban, unban or spammer_info_removal handled on connection c is written
\* exactly once on every other connection of the peer list and not on c (nor on
\* any connection outside the peer list).
C1_RelayExcludesArrival ==
    (last.handler \in RelayHandlers /\ last.result = "gunban") =>
        \A q \in Conns :
            /\ Len(out[q]) = IF q \in peers[Owner(last.conn)] \ {last.conn} THEN 1 ELSE 0
            /\ Gunbans(out[q]) = DOMAIN out[q]

C1_Witness ==
    /\ last.handler \in RelayHandlers
    /\ last.result = "gunban"
    /\ last.conn \in peers[Owner(last.conn)]
    /\ \E q \in peers[Owner(last.conn)] \ {last.conn} : Len(out[q]) = 1

\* C6: no two open connections of a node are handshake-complete under the same
\* peer uuid; a handshake found to duplicate the uuid of another open connection
\* leaves its own connection closing and that other connection open and
\* handshake-complete.
C6_OnePerUuid ==
    /\ \A p, q \in Conns :
          (/\ p # q /\ Owner(p) = Owner(q)
           /\ st[p] = "open" /\ st[q] = "open"
           /\ handshake_complete[p] /\ handshake_complete[q]) => peer_uuid[p] # peer_uuid[q]
    /\ (last.handler \in HandshakeHandlers /\ last.result = "duplicate") =>
          /\ st[last.conn] = "closing"
          /\ \E q \in Conns \ {last.conn} :
                /\ Owner(q) = Owner(last.conn)
                /\ st[q] = "open"
                /\ handshake_complete[q]
                /\ peer_uuid[q] = peer_uuid[last.conn]

C6_Witness ==
    /\ last.handler \in HandshakeHandlers
    /\ last.result = "duplicate"
    /\ \E q \in Conns \ {last.conn} : st[q] = "open" /\ handshake_complete[q]

\* C7 (as the specification states it): of two connections of a node whose
\* handshakes presented the same uuid, once both are settled (each still open, or
\* closed by the node and gone) exactly one is in the peer list.
Settled(p) == hs_result[p][1] # "none" /\ st[p] \in {"open", "closed"}

C22_UnknownTypeIgnored ==
    [][ last'.result = "unknown_type" =>
           /\ last'.handler = "none"
           /\ st' = st
           /\ peer_uuid' = peer_uuid
           /\ handshake_complete' = handshake_complete
           /\ peers' = peers
           /\ known_uuids' = known_uuids
           /\ authenticated_nodes' = authenticated_nodes
           /\ storage' = storage
           /\ out' = NoWrites ]_vars

\* a message of unknown type was received on an established connection
C22_Witness ==
    /\ last.result = "unknown_type"
    /\ st[last.conn] = "open"
    /\ handshake_complete[last.conn]
    /\ last.conn \in peers["A"]

\* C23 (as the specification states it): an unban or spammer_info_removal that is
\* handled clears the record of its user, is written as a gunban exactly once on
\* every other connection of the peer list and not on the connection it arrived
\* on, and when it carries no source_node_uuid the gunban written carries the
\* source_node_uuid "legacy".
LegacyHandlers == {"handle_unban_message", "handle_spammer_info_removal"}
LegacyId(m) == IF m.type = "unban" THEN m.spammer_id ELSE m.user_id

Broadcast(l, c, d, f, enc) ==
    [type |-> "spammer_info_broadcast", user_id |-> "u1",
     lols_bot_data |-> [enc |-> enc, v |-> l], cas_chat_data |-> [enc |-> enc, v |-> c],
     p2p_data |-> [enc |-> enc, v |-> d], is_spammer |-> f]

GossipInputs ==
    {Broadcast("a", "a", "a", TRUE, "obj"),
     Broadcast("a", "a", "a", TRUE, "str"),
     Broadcast("b", "a", "a", TRUE, "obj"),
     Broadcast("a", "b", "a", TRUE, "obj"),
     Broadcast("a", "a", "b", TRUE, "obj"),
     Broadcast("a", "a", "a", FALSE, "obj"),
     [type |-> "spammer_info_broadcast", user_id |-> "u1"]}

EnvGossip(p) ==
    /\ p \in EnvConns
    /\ \E m \in GossipInputs : Receive(p, m, 0)

GossipConfigs == {BaseConfig, [BaseConfig EXCEPT !.has_attrs = FALSE]}

InitGossip ==
    \E c \in GossipConfigs, db \in {[u \in Users |-> NoRecord], [u \in Users |-> R1]} :
        InitWith(c, db)

NextGossip ==
    \/ \E p \in EnvConns : ConnectionMade(p)
    \/ \E p \in EnvConns : EnvGossip(p)
    \/ \E p \in EnvConns : ConnectionLost(p)

SpecGossip == InitGossip /\ [][NextGossip]_vars

(***************************************************************************)
(* Properties of SpecGossip.                                               *)
(***************************************************************************)
\* two steps in a row handled the same broadcast at the same node
SameBroadcastTwice ==
    /\ last.handler = "handle_p2p_data"
    /\ last'.handler = "handle_p2p_data"
    /\ last'.data = last.data
    /\ Owner(last'.conn) = Owner(last.conn)

FieldEqual(data, existing) ==
    /\ existing # NoRecord
    /\ \A f \in {"lols_bot_data", "cas_chat_data", "p2p_data"} :
          Get(data, f, EmptyObj).v = existing[f].v
    /\ Get(data, "is_spammer", FALSE) = existing.is_spammer

\* C4: a step that handles a spammer_info_broadcast for user_id writes to storage
\* only if the incoming record is not field-equal to the record stored for that
\* user_id, and sends only if it writes; when the four fields are equal it
\* leaves storage as it is and sends nothing.
C4_WriteOnlyIfDifferent ==
    [][ (last'.handler = "handle_p2p_data" /\ Has(last'.data, "user_id")) =>
           LET n == Owner(last'.conn)
               equal == FieldEqual(last'.data, storage[n][last'.data.user_id])
           IN  /\ last'.result = "stored" => ~equal
               /\ last'.result # "stored" => (storage' = storage /\ out' = NoWrites)
               /\ equal => (storage' = storage /\ out' = NoWrites) ]_vars

C4_Witness ==
    /\ last.handler = "handle_p2p_data"
    /\ last.result = "same"
    /\ FieldEqual(last.data, storage[Owner(last.conn)]["u1"])
    /\ Cardinality(peers[Owner(last.conn)]) > 1

AllHandshakesComplete == \A p \in NodeConns : st[p] = "open" /\ handshake_complete[p]

\* the request surface of node n asks for a global unban: the factory applies it
\* and sends the gunban to every connected peer
LocalGunban(n) ==
    LET g == factory_gunban(n, "u1", n, 0)
    IN  /\ AllHandshakesComplete
        /\ orig < MaxOrig
        /\ orig' = orig + 1
        /\ storage' = [storage EXCEPT ![n] = g.storage]
        /\ Send(g.writes, 0)
        /\ last' = [handler |-> "gunban", conn |-> 0, result |-> "sent", data |-> NoData]
        /\ UNCHANGED <<peers, known_uuids, st, host, peer_uuid, handshake_complete,
                       processed_data, waiterVars, policyVars, attrVars, rtVars, cfgVars,
                       now, file_mtime, env_file, hs_result, attempts, admitted, readVars>>

\* send_unban on connection p: the gunban goes to that peer only
send_unban(p, spammer_id, source_node_uuid) ==
    /\ AllHandshakesComplete
    /\ orig < MaxOrig
    /\ orig' = orig + 1
    /\ Send([NoWrites EXCEPT ![p] = <<GunbanMessage(spammer_id, source_node_uuid)>>], 0)
    /\ last' = [handler |-> "send_unban", conn |-> p, result |-> "sent", data |-> NoData]
    /\ UNCHANGED <<factoryVars, st, host, peer_uuid, handshake_complete,
                   processed_data, waiterVars, policyVars, attrVars, rtVars, cfgVars,
                   now, file_mtime, env_file, hs_result, attempts, admitted, readVars>>

Init3 == InitWith(BaseConfig, [u \in Users |-> R1])

Next3 ==
    \/ \E p \in NodeConns : ConnectionMade(p)
    \/ \E p \in NodeConns : NodeData(p)
    \/ LocalGunban("A")
    \/ send_unban(ConnTo("A", "B"), "u1", "A")

Spec3 == Init3 /\ [][Next3]_vars

CheckSaysSpammer(n, p, user_id) ==
    LET answer == handle_check_p2p_data(n, p, SM(n), [type |-> "check_p2p_data",
                                                       user_id |-> user_id]).writes[p][1]
    IN  Get(answer, "is_spammer", FALSE)

\* C27: a step in which a node applies a gunban it received leaves no record of
\* that spammer_id at the node, a check of it at the node does not answer
\* is_spammer true, and when the record had been cleared before (the same gunban
\* had been applied) the step leaves the whole storage as it was.
C27_GunbanIdempotent ==
    [][\A p \in NodeConns :
          (/\ last'.conn = p
           /\ last'.handler = "handle_gunban_message"
           /\ last'.result = "gunban"
           /\ inbox[p] # <<>>) =>
              \A spammer_id \in {Head(inbox[p]).spammer_id} :
                  /\ storage'[Owner(p)][spammer_id] = NoRecord
                  /\ ~CheckSaysSpammer(Owner(p), p, spammer_id)'
                  /\ storage[Owner(p)][spammer_id] = NoRecord => storage' = storage]_vars

\* B applied the gunban it got from A and the copy C relayed to it
C27_Witness ==
    /\ orig = 1
    /\ last.handler = "handle_gunban_message"
    /\ last.result = "gunban"
    /\ last.conn = ConnTo("B", "C")
    /\ inbox[ConnTo("B", "A")] = <<>>
    /\ storage["B"]["u1"] = NoRecord

(***************************************************************************)
(* SpecConverge: the line A - B - C (the connections of A-C stay unopened), *)
(* all records absent, and one node whose request surface reports user     *)
(* "u1".  What a node wrote on a connection is eventually read at the      *)
(* other end (the reactor calls dataReceived for bytes that arrived).      *)
(***************************************************************************)
LineConns == {ConnTo("A", "B"), ConnTo("B", "A"), ConnTo("B", "C"), ConnTo("C", "B")}
LineComplete == \A p \in LineConns : st[p] = "open" /\ handshake_complete[p]

\* "a locally-originated spammer_info_broadcast (after a local storage write)"
LocalReport(n) ==
    LET db == factory_store_spammer_data(n, "u1", R1.lols_bot_data, R1.cas_chat_data,
                                         R1.p2p_data, R1.is_spammer)
    IN  /\ LineComplete
        /\ \A p \in NodeConns : inbox[p] = <<>>
        /\ orig < MaxOrig
        /\ orig' = orig + 1
        /\ storage' = [storage EXCEPT ![n] = db]
        /\ Send(factory_broadcast_spammer_info(n, db, "u1", 0), 0)
        /\ last' = [handler |-> "report", conn |-> 0, result |-> "sent", data |-> NoData]
        /\ UNCHANGED <<peers, known_uuids, st, host, peer_uuid, handshake_complete,
                       processed_data, waiterVars, policyVars, attrVars, rtVars, cfgVars,
                       now, file_mtime, env_file, hs_result, attempts, admitted, readVars>>

ConvergeConfigs ==
    {BaseConfig, [BaseConfig EXCEPT !.security_enabled = FALSE],
     [BaseConfig EXCEPT !.has_attrs = FALSE]}

InitConverge == \E c \in ConvergeConfigs : InitWith(c, [u \in Users |-> NoRecord])

NextConverge ==
    \/ \E p \in LineConns : ConnectionMade(p)
    \/ \E p \in LineConns : NodeData(p)
    \/ \E n \in Nodes : LocalReport(n)

SpecConverge ==
    InitConverge /\ [][NextConverge]_vars /\ WF_vars(\E p \in LineConns : NodeData(p))

(***************************************************************************)
(* Properties of SpecConverge.                                             *)
(***************************************************************************)
Quiescent == \A p \in NodeConns : inbox[p] = <<>>
Converged == Quiescent /\ \A n \in Nodes : storage[n]["u1"] = R1

PolicyConfigs ==
    {[BaseConfig EXCEPT !.has_attrs = h, !.blocked_node_keys = bk, !.allowed_node_keys = ak,
                        !.blocked_ips = bi, !.blocked_nodes = bn, !.allowed_nodes = an] :
        h \in BOOLEAN, bk \in {{}, {"X"}}, ak \in {{}, {"X"}, {"B"}}, bi \in {{}, {"hE"}},
        bn \in {{}, {"X"}}, an \in {{}, {"B"}}}

PolicyConn == CHOOSE p \in EnvConns : \A q \in EnvConns : p <= q

EnvHandshake(p) ==
    /\ p \in EnvConns
    /\ \E m \in HandshakeInputs(Owner(p)) : Receive(p, m, 0)

InitPolicy == \E c \in PolicyConfigs : InitWith(c, [u \in Users |-> R1])

NextPolicy ==
    \/ ConnectionMade(PolicyConn)
    \/ EnvHandshake(PolicyConn)
    \/ ConnectionLost(PolicyConn)

SpecPolicy == InitPolicy /\ [][NextPolicy]_vars

(***************************************************************************)
(* Properties of SpecPolicy.                                               *)
(***************************************************************************)
Rejects(r) == ~r.raised /\ ~r.allowed

\* C9 (as the specification states it): with security enabled,
\* is_connection_allowed rejects every uuid of blocked_node_keys and every IP of
\* blocked_ips, whether or not the uuid is in allowed_node_keys; no connection
\* from a blocked IP stays open and no handshake under a blocked uuid completes.
C9_BlacklistRejects ==
    \A n \in {"A"} :
        enabled[n] =>
            /\ \A ip \in Hosts, u \in UUIDs :
                  (u \in blocked_node_keys[n] \/ ip \in blocked_ips[n]) =>
                      Rejects(is_connection_allowed(n, SM(n), ip, u))
            /\ \A p \in EnvConns :
                  /\ (st[p] = "open" /\ host[p] \in blocked_ips[n]) => FALSE
                  /\ hs_result[p][1] = "complete" => hs_result[p][2] \notin blocked_node_keys[n]

\* a handshake under uuid "X" completed while "X" is in blocked_node_keys
C9_Witness ==
    /\ enabled["A"]
    /\ has_attrs["A"]
    /\ "X" \in blocked_node_keys["A"]
    /\ last.handler \in HandshakeHandlers
    /\ last.result = "complete"
    /\ hs_result[last.conn] = <<"complete", "X">>

\* C10 (as the specification states it): with security enabled and
\* allowed_node_keys non-empty, is_connection_allowed rejects every uuid outside
\* allowed_node_keys and no handshake under such a uuid completes; with
\* allowed_node_keys empty no uuid is rejected as not in the whitelist.
C10_WhitelistEnforced ==
    \A n \in {"A"} :
        enabled[n] =>
            /\ allowed_node_keys[n] # {} =>
                  /\ \A ip \in Hosts, u \in UUIDs \ allowed_node_keys[n] :
                        Rejects(is_connection_allowed(n, SM(n), ip, u))
                  /\ \A p \in EnvConns :
                        hs_result[p][1] = "complete" => hs_result[p][2] \in allowed_node_keys[n]
            /\ allowed_node_keys[n] = {} =>
                  \A ip \in Hosts, u \in UUIDs :
                      is_connection_allowed(n, SM(n), ip, u).reason # "Node UUID not in whitelist"

\* a handshake under uuid "X" completed while the whitelist is {"B"}
C10_Witness ==
    /\ enabled["A"]
    /\ has_attrs["A"]
    /\ allowed_node_keys["A"] = {"B"}
    /\ last.handler \in HandshakeHandlers
    /\ last.result = "complete"
    /\ hs_result[last.conn] = <<"complete", "X">>

(***************************************************************************)
(* SpecHandshake: node "A" with and without a blacklist, a whitelist and   *)
(* required authentication, and the handshakes outside peers run on two    *)
(* connections to it.                                                      *)
(***************************************************************************)
HandshakeConfigs ==
    {BaseConfig,
     [BaseConfig EXCEPT !.blocked_nodes = {"X"}],
     [BaseConfig EXCEPT !.allowed_nodes = {"B"}],
     [BaseConfig EXCEPT !.auth = TRUE],
     [BaseConfig EXCEPT !.security_enabled = FALSE],
     [BaseConfig EXCEPT !.has_attrs = FALSE]}

InitHandshake == \E c \in HandshakeConfigs : InitWith(c, [u \in Users |-> R1])

NextHandshake ==
    \/ \E p \in EnvConns : ConnectionMade(p)
    \/ \E p \in EnvConns : EnvHandshake(p)
    \/ \E p \in EnvConns : ConnectionLost(p)

SpecHandshake == InitHandshake /\ [][NextHandshake]_vars

(***************************************************************************)
(* Properties of SpecHandshake.                                            *)
(***************************************************************************)
HandshakeResponses(w) == {i \in 1 .. Len(w) : Get(w[i], "type", "") = "handshake_response"}

\* C28: a step in which a connection's handshake_complete becomes true, or the
\* known uuids of the node grow, is the handling of a handshake message on that
\* connection whose uuid is the one added, for which authenticate_node
\* succeeded on the message, is_connection_allowed(remote IP, uuid) passed, the
\* uuid is not the node's own and no other open connection of the node has it;
\* a handshake_init that completes is answered with exactly one
\* handshake_response on its connection and nothing else is written.
C28_CompleteOnlyIfChecked ==
    [][\A p \in EnvConns :
          LET n == Owner(p)
              u == peer_uuid'[p]
              payload == IF REQUIRE_NODE_AUTHENTICATION[n] THEN last'.data ELSE <<>>
          IN  /\ (/\ last'.conn = p
                  /\ \/ ~handshake_complete[p] /\ handshake_complete'[p]
                     \/ known_uuids'[n] # known_uuids[n]) =>
                    /\ last'.handler \in HandshakeHandlers
                    /\ last'.result = "complete"
                    /\ handshake_complete'[p]
                    /\ known_uuids'[n] = known_uuids[n] \cup {u}
                    /\ authenticate_node(n, SM(n), u, payload).allowed
                    /\ is_connection_allowed(n, SM(n), host[p], u).allowed
                    /\ u # n
                    /\ ~is_duplicate_uuid(n, u, p)
              /\ (last'.conn # p /\ last'.conn \in EnvConns) =>
                    ~(~handshake_complete[p] /\ handshake_complete'[p])
              /\ (last'.conn = p /\ last'.handler = "handle_handshake_init"
                                 /\ last'.result = "complete") =>
                    /\ Len(out'[p]) = 1
                    /\ HandshakeResponses(out'[p]) = {1}
                    /\ \A q \in Conns \ {p} : out'[q] = <<>>]_vars

\* a handshake_init under "X" completed on one connection while another
\* connection of the node is open, and was answered
C28_Witness ==
    /\ last.handler = "handle_handshake_init"
    /\ last.result = "complete"
    /\ has_attrs["A"]
    /\ security_enabled["A"]
    /\ peer_uuid[last.conn] = "X"
    /\ "X" \in known_uuids["A"]
    /\ HandshakeResponses(out[last.conn]) = {1}
    /\ \E q \in EnvConns \ {last.conn} : st[q] = "open"

\* the connections of node n that are open, handshake-complete, and whose
\* handshake under uuid u passed authenticate_node
AuthenticatedAs(n, u) ==
    {p \in EnvConns : /\ st[p] = "open"
                      /\ handshake_complete[p]
                      /\ hs_result[p] = <<"complete", u>>}

RateConfigs ==
    {[BaseConfig EXCEPT !.conn_rate = 1],
     [BaseConfig EXCEPT !.conn_rate = 2],
     [BaseConfig EXCEPT !.max_conn = 1],
     [BaseConfig EXCEPT !.conn_rate = 1, !.has_attrs = FALSE]}

InitRate == \E c \in RateConfigs : InitWith(c, [u \in Users |-> R1])

\* the outside peer answers the handshake_init it was sent, as "X"
EnvHandshakeInit(p) ==
    /\ p \in EnvConns
    /\ Receive(p, [type |-> "handshake_init", uuid |-> "X", node_version |-> "1.0.0",
                   timestamp |-> <<now, 0>>], 0)

NextRate ==
    \/ \E p \in EnvConns : ConnectionMade(p)
    \/ \E p \in EnvConns : EnvHandshakeInit(p)
    \/ \E p \in EnvConns : ConnectionLost(p)
    \/ Tick

SpecRate == InitRate /\ [][NextRate]_vars

(***************************************************************************)
(* Properties of SpecRate.                                                 *)
(***************************************************************************)
\* the admissions of `ts` that lie within the 60 s window that ends now
InWindow(ts) == SelectSeq(ts, LAMBDA t : now - t <= WINDOW_TICKS)
OpenFrom(n, h) == {q \in peers[n] : host[q] = h}

\* C11 (as the specification states it): with security enabled and
\* connection_rate_limit = N, a connection attempt from an IP that is not blocked
\* and is below its connection limit is admitted while fewer than N attempts
\* from that IP were admitted within the last 60 s, and is rejected with reason
\* "Connection rate limit exceeded" once N were.
C11_RateLimited ==
    [][\A p \in EnvConns :
          (st[p] = "idle" /\ st'[p] # "idle") =>
              LET n == Owner(p)
                  h == host'[p]
                  k == Len(InWindow(attempts[n][h]))
                  verdict == is_connection_allowed(n, check_config_reload(n, SM(n)), h, None)
              IN  (/\ ENABLE_P2P_SECURITY[n]
                   /\ h \notin blocked_ips[n]
                   /\ Cardinality(OpenFrom(n, h)) < MAX_CONNECTIONS_PER_IP[n]) =>
                      /\ k < CONNECTION_RATE_LIMIT[n] => last'.result = "admitted"
                      /\ k >= CONNECTION_RATE_LIMIT[n] =>
                            /\ last'.result = "rejected"
                            /\ Rejects(verdict)
                            /\ verdict.reason = "Connection rate limit exceeded"]_vars

\* where the attributes is_connection_allowed reads exist: the attempt after the
\* N-th admitted one of the window was rejected
C11_Witness ==
    /\ has_attrs["A"]
    /\ last.handler = "connectionMade"
    /\ last.result = "rejected"
    /\ Len(InWindow(attempts["A"]["hE"])) = CONNECTION_RATE_LIMIT["A"]
    /\ Cardinality(OpenFrom("A", "hE")) < MAX_CONNECTIONS_PER_IP["A"]

MsgConfigs ==
    {[BaseConfig EXCEPT !.msg_rate = 1],
     [BaseConfig EXCEPT !.msg_rate = 2],
     [BaseConfig EXCEPT !.msg_rate = DEQUE_MAXLEN + 1],
     [BaseConfig EXCEPT !.msg_rate = 1, !.has_attrs = FALSE]}

MsgConn == CHOOSE p \in EnvConns : \A q \in EnvConns : p <= q

InitMsg == \E c \in MsgConfigs : InitWith(c, [u \in Users |-> R1])

\* the outside peer sends a message (of a type no handler exists for)
EnvMessage(p) ==
    /\ p \in EnvConns
    /\ Len(admitted[Owner(p)]["hE"]) < MaxMsgs
    /\ Receive(p, [type |-> "bogus"], 0)

NextMsg ==
    \/ ConnectionMade(MsgConn)
    \/ EnvMessage(MsgConn)
    \/ Tick

SpecMsg == InitMsg /\ [][NextMsg]_vars

AuthConfigs ==
    {[BaseConfig EXCEPT !.auth = TRUE, !.key = k, !.has_attrs = h] :
        k \in {"k1", ""}, h \in BOOLEAN}

\* timestamps a payload may carry: now, the edge of the replay window, beyond it
PayloadTimes == {<<now, 0>>, <<now + REPLAY_TICKS, 0>>, <<now + REPLAY_TICKS + 1, 0>>}
Stale(ts) == Abs(now - TickOf(ts)) > REPLAY_TICKS

\* the payload of a peer that holds key k: the token is the HMAC of (uuid, ts, challenge)
AuthPayload(k, uuid, ts, challenge) ==
    [auth_token |-> <<"hmac", k, uuid, ts, challenge>>, timestamp |-> ts, challenge |-> challenge]
CorrectToken(n, m) ==
    /\ Has(m, "auth_token") /\ Has(m, "timestamp") /\ Has(m, "challenge") /\ Has(m, "uuid")
    /\ NETWORK_SECRET_KEY[n] # ""
    /\ m.auth_token = <<"hmac", NETWORK_SECRET_KEY[n], m.uuid, m.timestamp, m.challenge>>

AuthInputs(n) ==
    LET hello(t) == [type |-> t, uuid |-> "X", node_version |-> "1.0.0"]
    IN  {Update(hello("handshake_init"), AuthPayload(k, "X", ts, "c1")) :
            k \in {"k1", "k2"}, ts \in PayloadTimes}
        \cup {Update(hello("handshake_response"), AuthPayload("k1", "X", ts, "c1")) :
                 ts \in PayloadTimes}
        \cup {With(hello("handshake_init"), "timestamp", <<now, 0>>),
              GunbanMessage("u1", "X"),
              [type |-> "check_p2p_data", user_id |-> "u1"]}

EnvAuth(p) ==
    /\ p \in EnvConns
    /\ \E m \in AuthInputs(Owner(p)) : Receive(p, m, 0)

InitAuth == \E c \in AuthConfigs : InitWith(c, [u \in Users |-> R1])

NextAuth ==
    \/ \E p \in EnvConns : ConnectionMade(p)
    \/ \E p \in EnvConns : EnvAuth(p)
    \/ \E p \in EnvConns : ConnectionLost(p)

SpecAuth == InitAuth /\ [][NextAuth]_vars

(***************************************************************************)
(* Properties of SpecAuth.                                                 *)
(***************************************************************************)
\* C12: when authentication is required, authenticate_node accepts no payload
\* whose timestamp is more than 300 s from the current time, also when its
\* auth_token is the HMAC of (uuid, timestamp, challenge) under the network key:
\* where the call returns and a key is set the reason is "Authentication
\* timestamp expired"; the authenticated set is left as it was, and a handshake
\* that carries such a payload does not complete.
C12_StaleRejected ==
    \A n \in {"A"} :
        REQUIRE_NODE_AUTHENTICATION[n] =>
            /\ \A u \in EnvUUIDs, ts \in PayloadTimes, k \in Keys \ {""} :
                  Stale(ts) =>
                      LET r == authenticate_node(n, SM(n), u, AuthPayload(k, u, ts, "c1"))
                      IN  /\ ~r.allowed
                          /\ r.sm.authenticated_nodes = authenticated_nodes[n]
                          /\ (~r.raised /\ NETWORK_SECRET_KEY[n] # "") =>
                                r.reason = "Authentication timestamp expired"
            /\ (/\ last.handler \in HandshakeHandlers
                /\ Has(last.data, "timestamp")
                /\ Stale(last.data.timestamp)) =>
                   /\ last.result = "auth_failed"
                   /\ ~handshake_complete[last.conn]
                   /\ last.data.uuid \notin authenticated_nodes[n]
                   /\ last.data.uuid \notin known_uuids[n]

\* a handshake_init whose token is the correct HMAC over a timestamp 360 s off
\* was handled and failed authentication
C12_Witness ==
    /\ last.handler = "handle_handshake_init"
    /\ CorrectToken("A", last.data)
    /\ Stale(last.data.timestamp)
    /\ last.result = "auth_failed"
    /\ st[last.conn] = "closing"

NonHandshakeHandlers ==
    {Handlers[t] : t \in (DOMAIN Handlers) \ {"handshake_init", "handshake_response"}}
SenderOf(p) == IF peer_uuid[p] = None THEN "unknown" ELSE peer_uuid[p]

\* C19: with security enabled and authentication required, is_message_allowed
\* rejects every message that is no handshake_init or handshake_response and
\* whose sender is not in the authenticated set, and no such message is
\* dispatched to a handler; handshake messages are not rejected for that reason.
C19_UnauthenticatedNotDispatched ==
    \A n \in {"A"} :
        REQUIRE_NODE_AUTHENTICATION[n] =>
            /\ \A t \in DOMAIN Handlers, u \in (UUIDs \cup {"unknown"}) \ authenticated_nodes[n] :
                  LET r == is_message_allowed(n, SM(n), "hE", u, t)
                  IN  IF t \in {"handshake_init", "handshake_response"}
                      THEN r.reason # "Node not authenticated"
                      ELSE ~r.allowed /\ (~r.raised => r.reason = "Node not authenticated")
            /\ last.handler \in NonHandshakeHandlers =>
                  SenderOf(last.conn) \in authenticated_nodes[n]

\* a gunban or check_p2p_data of an unauthenticated sender was dropped before
\* dispatch, with room left in the message window
C19_Witness ==
    /\ has_attrs["A"]
    /\ last.handler = "none"
    /\ last.result = "message_rejected"
    /\ Len(message_counts["A"]["hE"]) < MESSAGE_RATE_LIMIT["A"]

\* payloads a handshake may carry: none, one with an empty token, and the ones of
\* peers that hold a key
Payloads(u) ==
    {<<>>, [auth_token |-> NoToken, timestamp |-> <<now, 0>>, challenge |-> "c1"]}
    \cup {AuthPayload(k, u, ts, "c1") : k \in Keys \ {""}, ts \in PayloadTimes}

\* C21: with security enabled, authentication required and no secret key,
\* authenticate_node accepts no payload (where the call returns, the reason is
\* "Server configuration error"), the authenticated set stays empty, and a
\* handshake that reaches authenticate_node ends as an authentication failure
\* with the connection closing.
C21_NoKeyFailsClosed ==
    \A n \in {"A"} :
        (REQUIRE_NODE_AUTHENTICATION[n] /\ NETWORK_SECRET_KEY[n] = "") =>
            /\ \A u \in EnvUUIDs : \A payload \in Payloads(u) :
                  LET r == authenticate_node(n, SM(n), u, payload)
                  IN  /\ ~r.allowed
                      /\ r.sm.authenticated_nodes = authenticated_nodes[n]
                      /\ ~r.raised => r.reason = "Server configuration error"
            /\ authenticated_nodes[n] = {}
            /\ \A p \in EnvConns : ~handshake_complete[p]
            /\ (last.handler \in HandshakeHandlers /\ last.result # "error") =>
                  /\ last.result = "auth_failed"
                  /\ st[last.conn] = "closing"

\* a handshake_init that carried a token was handled by a node without a key
C21_Witness ==
    /\ NETWORK_SECRET_KEY["A"] = ""
    /\ has_attrs["A"]
    /\ last.handler = "handle_handshake_init"
    /\ Has(last.data, "auth_token")
    /\ last.result = "auth_failed"
    /\ st[last.conn] = "closing"

(***************************************************************************)
(* SpecReload: node "A" with the whitelist {"B"}, edits of its .env file,  *)
(* and both ways a reload is asked for.                                    *)
(***************************************************************************)
ReloadConfigs ==
    {[BaseConfig EXCEPT !.allowed_node_keys = {"B"}, !.allowed_nodes = {"B"}, !.has_attrs = h] :
        h \in BOOLEAN}

\* what an edit may leave in .env
EditPolicies ==
    {Policy(TRUE, {"B", "X"}, {}, {"hC"}),
     Policy(TRUE, {"B"}, {"X"}, {})}

InitReload == \E c \in ReloadConfigs : InitWith(c, [u \in Users |-> R1])

NextReload ==
    \/ \E p \in EnvConns : ConnectionMade(p)
    \/ \E p \in EnvConns : EnvHandshakeInit(p)
    \/ \E p \in EnvConns : ConnectionLost(p)
    \/ \E policy \in EditPolicies : EditConfig("A", policy)
    \/ ReloadConfiguration("A")

SpecReload == InitReload /\ [][NextReload]_vars

(***************************************************************************)
(* Properties of SpecReload.                                               *)
(***************************************************************************)
OnDisk(n) == env_file[n][file_mtime[n]]
Reloaded(n) == config_mtime[n] = file_mtime[n]

\* C13 (as the specification states it): once the revision of the source has
\* been applied by check_config_reload, every uuid of the allow-list of the
\* source is a member of the in-memory allowed set, and is_connection_allowed
\* does not reject it as not whitelisted.
C13_HotReload ==
    \A n \in {"A"} :
        Reloaded(n) =>
            \A u \in OnDisk(n).ALLOWED_NODE_KEYS :
                /\ u \in allowed_node_keys[n]
                /\ LET r == is_connection_allowed(n, SM(n), "hE", u)
                   IN  ~r.raised /\ r.reason # "Node UUID not in whitelist"

\* "X" was added to the allow-list on disk, the new revision was applied by
\* connectionMade, and the handshake of "X" on that connection was rejected
C13_Witness ==
    /\ file_mtime["A"] > 1
    /\ Reloaded("A")
    /\ "X" \in OnDisk("A").ALLOWED_NODE_KEYS
    /\ "X" \notin env_file["A"][1].ALLOWED_NODE_KEYS
    /\ last.handler = "handle_handshake_init"
    /\ last.result = "rejected"
    /\ hs_result[last.conn] = <<"rejected", "X">>

InMemory(n) == Policy(enabled[n], allowed_node_keys[n], blocked_node_keys[n], blocked_ips[n])

\* C15: the policy fields the decisions read are at all times those of one
\* single revision of the source; no state mixes fields of two revisions.
C15_OneRevision ==
    \A n \in {"A"} : \E r \in 1 .. Len(env_file[n]) : InMemory(n) = env_file[n][r]

\* a connection was decided on after a reload of an edited file
C15_Witness ==
    /\ file_mtime["A"] > 1
    /\ Reloaded("A")
    /\ OnDisk("A") # env_file["A"][1]
    /\ last.handler = "connectionMade"
    /\ last.result = "admitted"

(***************************************************************************)
(* SpecBlock: node "A", the connections outside peers open to it, and the  *)
(* calls that edit the in-memory blacklist.  The .env file is not touched, *)
(* so no reload happens.                                                   *)
(***************************************************************************)
BlockConfigs == {BaseConfig, [BaseConfig EXCEPT !.has_attrs = FALSE]}

InitBlock == \E c \in BlockConfigs : InitWith(c, [u \in Users |-> R1])

NextBlock ==
    \/ \E p \in EnvConns : ConnectionMade(p)
    \/ \E p \in EnvConns : EnvHandshakeInit(p)
    \/ \E p \in EnvConns : ConnectionLost(p)
    \/ AddBlockedNode("A", "X")
    \/ RemoveBlockedNode("A", "X")
    \/ AddBlockedIp("A", "hE")
    \/ RemoveBlockedIp("A", "hE")

SpecBlock == InitBlock /\ [][NextBlock]_vars

(***************************************************************************)
(* Properties of SpecBlock.                                                *)
(***************************************************************************)
\* C24 (as the specification states it): with security enabled, right after
\* add_blocked_node(u) is_connection_allowed rejects u as "Node UUID blocked" from
\* every IP that is not blocked, and right after add_blocked_ip(ip) it rejects ip
\* as "IP address blocked" for every uuid and for none; right after
\* remove_blocked_node(u) / remove_blocked_ip(ip) it answers and does not reject
\* for that reason.
C24_BlockTakesEffect ==
    \A n \in {"A"} :
        ENABLE_P2P_SECURITY[n] =>
            /\ last.handler = "add_blocked_node" =>
                  \A ip \in Hosts \ blocked_ips[n] :
                      LET r == is_connection_allowed(n, SM(n), ip, last.data)
                      IN  Rejects(r) /\ r.reason = "Node UUID blocked"
            /\ last.handler = "add_blocked_ip" =>
                  \A u \in UUIDs \cup {None} :
                      LET r == is_connection_allowed(n, SM(n), last.data, u)
                      IN  Rejects(r) /\ r.reason = "IP address blocked"
            /\ last.handler = "remove_blocked_node" =>
                  \A ip \in Hosts :
                      LET r == is_connection_allowed(n, SM(n), ip, last.data)
                      IN  ~r.raised /\ r.reason # "Node UUID blocked"
            /\ last.handler = "remove_blocked_ip" =>
                  \A u \in UUIDs \cup {None} :
                      LET r == is_connection_allowed(n, SM(n), last.data, u)
                      IN  ~r.raised /\ r.reason # "IP address blocked"

\* "hE" was put on the blacklist with add_blocked_ip, and a connection from "hE"
\* made after that is open
C24_Witness ==
    /\ "hE" \in blocked_ips["A"]
    /\ last.handler = "connectionMade"
    /\ host[last.conn] = "hE"
    /\ st[last.conn] = "open"

(***************************************************************************)
(* SpecSign: sign_message and verify_message_signature of node "A", under  *)
(* every setting of the key, of signing and of REJECT_UNSIGNED_MESSAGES,   *)
(* applied to messages with and without a "signature" field.               *)
(***************************************************************************)
SignConfigs ==
    {[BaseConfig EXCEPT !.signing = s, !.key = k, !.reject_unsigned = r] :
        s \in BOOLEAN, k \in Keys, r \in BOOLEAN}

SignMessages ==
    {[type |-> "handshake_init", uuid |-> "A", node_version |-> "1.0.0", timestamp |-> <<1, 0>>],
     GunbanMessage("u1", "A"),
     [type |-> "gunban", spammer_id |-> "u1", source_node_uuid |-> "X",
      signature |-> <<"hmac", "k1", "X", [type |-> "gunban"]>>],
     [type |-> "check_p2p_data", user_id |-> "u1", signature |-> NoToken]}

\* signed = SECURITY_MANAGER.sign_message(message, node_uuid);
\* SECURITY_MANAGER.verify_message_signature(signed, node_uuid)
SignAndVerify(n) ==
    \E message \in SignMessages, node_uuid \in UUIDs :
        LET signed == sign_message(n, message, node_uuid)
        IN  /\ last' = [handler |-> "sign_message", conn |-> 0,
                        result |-> IF verify_message_signature(n, signed, node_uuid)
                                   THEN "verified" ELSE "invalid_signature",
                        data |-> [message |-> message, node_uuid |-> node_uuid, signed |-> signed]]
            /\ UNCHANGED <<factoryVars, protoVars, waiterVars, policyVars, attrVars, rtVars,
                           cfgVars, envVars, out, hs_result, attempts, admitted, readVars>>

InitSign == \E c \in SignConfigs : InitWith(c, [u \in Users |-> R1])

NextSign == SignAndVerify("A")

SpecSign == InitSign /\ [][NextSign]_vars

CheckP2PData(p) ==
    /\ st[p] = "open"
    /\ deferred[p] = "absent"
    /\ timeout_call[p] = None
    /\ deferred' = [deferred EXCEPT ![p] = "pending"]
    /\ timeout_call' = [timeout_call EXCEPT ![p] = "active"]
    /\ Send([NoWrites EXCEPT ![p] = <<[type |-> "check_p2p_data", user_id |-> "u1"]>>], 0)
    /\ last' = [handler |-> "check_p2p_data", conn |-> p, result |-> "sent", data |-> NoData]
    /\ UNCHANGED <<factoryVars, st, host, peer_uuid, handshake_complete, processed_data,
                   resolutions, policyVars, attrVars, rtVars, cfgVars, envVars,
                   hs_result, attempts, admitted, readVars>>

\* "timeout elapsed": the DelayedCall fires and resolves the waiter unless it was
\* resolved before; it is the response and the loss of the connection that remove
\* the attribute (protocol.py 528, 626)
Timeout(p) ==
    /\ timeout_call[p] = "active"
    /\ timeout_call' = [timeout_call EXCEPT ![p] = "called"]
    /\ deferred' = [deferred EXCEPT ![p] = IF @ = "pending" THEN "called" ELSE @]
    /\ resolutions' = [resolutions EXCEPT ![p] = IF deferred[p] = "pending" THEN @ + 1 ELSE @]
    /\ out' = NoWrites
    /\ last' = [handler |-> "timeout", conn |-> p,
                result |-> IF deferred[p] = "pending" THEN "resolved" ELSE "ignored",
                data |-> NoData]
    /\ UNCHANGED <<factoryVars, protoVars, policyVars, attrVars, rtVars, cfgVars, envVars,
                   hs_result, attempts, admitted, readVars>>

\* the peer answers: the record, or "No spammer data found"
ResponseInputs ==
    {[type |-> "check_p2p_data_response", user_id |-> "u1", error |-> "No spammer data found"],
     With(BroadcastMessage("u1", R1), "type", "check_p2p_data_response")}

EnvResponse(p) ==
    /\ p \in EnvConns
    /\ \E m \in ResponseInputs : Receive(p, m, 0)

WaiterConfigs ==
    {BaseConfig, [BaseConfig EXCEPT !.security_enabled = FALSE],
     [BaseConfig EXCEPT !.has_attrs = FALSE]}

InitWaiter == \E c \in WaiterConfigs : InitWith(c, [u \in Users |-> R1])

NextWaiter ==
    \/ \E p \in EnvConns : ConnectionMade(p)
    \/ \E p \in EnvConns : CheckP2PData(p)
    \/ \E p \in EnvConns : EnvResponse(p)
    \/ \E p \in EnvConns : Timeout(p)
    \/ \E p \in EnvConns : ConnectionLost(p)

SpecWaiter == InitWaiter /\ [][NextWaiter]_vars

(***************************************************************************)
(* Properties of SpecWaiter.                                               *)
(***************************************************************************)
\* C18 (as the specification states it): the waiter of a connection is resolved
\* at most once; once a response was handled, the connection was lost or the
\* timeout elapsed, it is resolved; and no path that finds it resolved ends in
\* an error.
C18_ResolvedOnceNoError ==
    \A p \in EnvConns :
        /\ resolutions[p] <= 1
        /\ (timeout_call[p] # None /\ (st[p] \in Closed \/ timeout_call[p] = "called")) =>
              resolutions[p] = 1
        /\ (/\ timeout_call[p] # None
            /\ last.conn = p
            /\ last.handler \in {"handle_check_p2p_data_response", "connectionLost"}) =>
              last.result # "error"

\* the timeout resolved the waiter, then the response arrived and its handler
\* was left by AlreadyCalledError
C18_Witness ==
    /\ last.handler = "handle_check_p2p_data_response"
    /\ last.result = "error"
    /\ timeout_call[last.conn] = "called"
    /\ deferred[last.conn] = "called"
    /\ resolutions[last.conn] = 1

\* C35 (as the specification states it): a step in which a connection is lost
\* takes it, and nothing else, out of the peer list, takes its registration
\* from the counter of its IP, fails its waiter once if it is pending (and not
\* otherwise), and invokes bootstrap reconnection exactly when the peer list is
\* empty after it.
C35_ConnectionLostCleansUp ==
    [][\A p \in EnvConns :
          (last'.handler = "connectionLost" /\ last'.conn = p) =>
              LET n == Owner(p)
                  h == host[p]
              IN  /\ peers'[n] = peers[n] \ {p}
                  /\ security_enabled[n] =>
                        connection_counts'[n][h] =
                            IF connection_counts[n][h] > 0 THEN connection_counts[n][h] - 1 ELSE 0
                  /\ resolutions'[p] = resolutions[p] + (IF deferred[p] = "pending" THEN 1 ELSE 0)
                  /\ deferred'[p] # "pending"
                  /\ (last'.result = "reconnect_to_bootstrap") = (peers'[n] = {})]_vars

\* a connection with a pending waiter was lost; connectionLost was left by the
\* AttributeError of unregister_connection, the waiter is still pending and
\* no reconnection was invoked although the peer list is empty
C35_Witness ==
    /\ last.handler = "connectionLost"
    /\ last.result = "error"
    /\ st[last.conn] \in Closed
    /\ deferred[last.conn] = "pending"
    /\ resolutions[last.conn] = 0
    /\ peers["A"] = {}

(***************************************************************************)
(* SpecAdmit: connections outside peers open to node "A" while its .env    *)
(* file is edited and its IP blacklist is changed at run time.             *)
(***************************************************************************)
AdmitConfigs ==
    {BaseConfig,
     [BaseConfig EXCEPT !.blocked_ips = {"hE"}],
     [BaseConfig EXCEPT !.max_conn = 1],
     [BaseConfig EXCEPT !.auth = TRUE],
     [BaseConfig EXCEPT !.security_enabled = FALSE],
     [BaseConfig EXCEPT !.has_attrs = FALSE]}

InitAdmit == \E c \in AdmitConfigs : InitWith(c, [u \in Users |-> R1])

NextAdmit ==
    \/ \E p \in EnvConns : ConnectionMade(p)
    \/ \E p \in EnvConns : ConnectionLost(p)
    \/ \E policy \in EditPolicies : EditConfig("A", policy)
    \/ AddBlockedIp("A", "hE")
    \/ RemoveBlockedIp("A", "hE")

SpecAdmit == InitAdmit /\ [][NextAdmit]_vars

(***************************************************************************)
(* Properties of SpecAdmit.                                                *)
(***************************************************************************)
HandshakeInits(w) == {i \in 1 .. Len(w) : Get(w[i], "type", "") = "handshake_init"}

\* C29: when a connection is established the configuration is first brought to
\* the revision of the .env file, and the admission is decided by
\* is_connection_allowed(remote IP) on that configuration; a rejected connection
\* is closing, nothing is written to any transport, the connection counter of
\* its IP is unchanged and the peer list is unchanged; an admitted connection is
\* open, counted for its IP (where security is enabled), a member of the peer
\* list, and exactly one handshake_init is written to it and nothing elsewhere.
C29_ReloadThenAdmit ==
    [][\A p \in EnvConns :
          (last'.handler = "connectionMade" /\ last'.conn = p /\ st[p] = "idle") =>
              LET n == Owner(p)
                  h == host'[p]
                  sm1 == check_config_reload(n, SM(n))
                  ca == is_connection_allowed(n, sm1, h, None)
              IN  /\ config_mtime'[n] = file_mtime[n]
                  /\ blocked_ips'[n] = sm1.blocked_ips
                  /\ (last'.result = "rejected") = (~ca.raised /\ ~ca.allowed)
                  /\ (last'.result = "admitted") = (~ca.raised /\ ca.allowed)
                  /\ last'.result = "rejected" =>
                        /\ st'[p] = "closing"
                        /\ out' = NoWrites
                        /\ connection_counts' = connection_counts
                        /\ peers' = peers
                        /\ p \notin peers'[n]
                  /\ last'.result = "admitted" =>
                        /\ st'[p] = "open"
                        /\ security_enabled[n] =>
                              connection_counts'[n][h] = connection_counts[n][h] + 1
                        /\ peers'[n] = peers[n] \cup {p}
                        /\ Len(out'[p]) = 1
                        /\ HandshakeInits(out'[p]) = {1}
                        /\ \A q \in Conns \ {p} : out'[q] = <<>>]_vars

\* a connection was admitted and sent its handshake_init after a reload, while
\* a connection that was rejected is closing and is not in the peer list
C29_Witness ==
    /\ last.handler = "connectionMade"
    /\ last.result = "admitted"
    /\ config_mtime["A"] > 1
    /\ HandshakeInits(out[last.conn]) = {1}
    /\ last.conn \in peers["A"]
    /\ connection_counts["A"]["hE"] = 1
    /\ \E q \in EnvConns : st[q] = "closing" /\ q \notin peers["A"]

(***************************************************************************)
(* SpecHonest: nodes "A" and "B" hold the same secret key, require         *)
(* authentication and open the connection between them; each end sends     *)
(* the handshake_init its own code builds, the other end handles it.       *)
(***************************************************************************)
HonestConns == {ConnTo("A", "B"), ConnTo("B", "A")}

HonestConfigs ==
    {[BaseConfig EXCEPT !.auth = TRUE],
     [BaseConfig EXCEPT !.auth = TRUE, !.has_attrs = FALSE]}

InitHonest == \E c \in HonestConfigs : InitWith(c, [u \in Users |-> R1])

NextHonest ==
    \/ \E p \in HonestConns : ConnectionMade(p)
    \/ \E p \in HonestConns : NodeData(p)
    \/ \E p \in HonestConns : ConnectionLost(p)
    \/ Tick

SpecHonest == InitHonest /\ [][NextHonest]_vars

(***************************************************************************)
(* Properties of SpecHonest.                                               *)
(***************************************************************************)
\* handshake messages in flight to connection p that carry auth fields
AuthInFlight(p) ==
    {i \in 1 .. Len(inbox[p]) :
        /\ Get(inbox[p][i], "type", "") \in {"handshake_init", "handshake_response"}
        /\ Has(inbox[p][i], "auth_token")}

DropConfigs ==
    {[BaseConfig EXCEPT !.msg_rate = 1],
     [BaseConfig EXCEPT !.signing = TRUE, !.reject_unsigned = TRUE],
     [BaseConfig EXCEPT !.auth = TRUE],
     [BaseConfig EXCEPT !.has_attrs = FALSE]}

InitDrop == \E c \in DropConfigs : InitWith(c, [u \in Users |-> R1])

NextDrop ==
    \/ ConnectionMade(MsgConn)
    \/ EnvData(MsgConn)
    \/ ConnectionLost(MsgConn)

SpecDrop == InitDrop /\ [][NextDrop]_vars

(***************************************************************************)
(* Properties of SpecDrop.                                                 *)
(***************************************************************************)
Drops == {"message_rejected", "invalid_signature"}

\* C31: a step in which is_message_allowed or verify_message_signature failed
\* for a message dispatches it to no handler, writes nothing, and leaves the
\* connections (open or closing as they were, their uuid and handshake state),
\* the peer list, the known uuids and the storage as they were; the connection
\* is still one that dataReceived runs on.
C31_DroppedNotDispatched ==
    [][last'.result \in Drops =>
          /\ last'.handler = "none"
          /\ last'.conn \in Conns
          /\ st[last'.conn] \in {"open", "closing"}
          /\ out' = NoWrites
          /\ UNCHANGED <<st, peer_uuid, handshake_complete, processed_data, peers,
                         known_uuids, storage, authenticated_nodes, hs_result>>]_vars

\* a message with no valid signature was dropped on a connection whose handshake
\* is complete, and the connection is open
C31_Witness ==
    /\ last.result = "invalid_signature"
    /\ last.handler = "none"
    /\ st[last.conn] = "open"
    /\ handshake_complete[last.conn]
    /\ peer_uuid[last.conn] = "X"

(***************************************************************************)
(* SpecRead: one connection of an outside peer to node "A"; its bytes      *)
(* arrive in reads of several pieces.                                      *)
(***************************************************************************)
ReadConn == MsgConn

\* the objects of the reads: a handshake_init that is turned away (it carries the
\* uuid of the node itself), and a gunban; the object that arrives in two reads
ReadMessages ==
    {[type |-> "handshake_init", uuid |-> "A", node_version |-> "1.0.0", timestamp |-> <<1, 0>>],
     GunbanMessage("u1", "X")}
SplitMessage == [type |-> "check_p2p_data", user_id |-> "u1"]

SeqsUpTo(S, k) == UNION {[1 .. i -> S] : i \in 0 .. k}
Pieces == {ObjPiece(m) : m \in ReadMessages} \cup {BadPiece}

Reads(p) ==
    IF fragment[p] = "head"
    THEN {<<TailPiece(SplitMessage)>> \o r : r \in SeqsUpTo(Pieces, 1)}
    ELSE (SeqsUpTo(Pieces, MaxObjects) \ {<<>>})
         \cup (IF fragment[p] = "none"
               THEN {Append(r, HeadPiece(SplitMessage)) : r \in SeqsUpTo(Pieces, 1)}
               ELSE {})

EnvRead(p) == \E read \in Reads(p) : ReadArrives(p, read)

\* the message rate limit is above the number of objects of the reads
ReadConfigs ==
    {[BaseConfig EXCEPT !.msg_rate = MaxReads * MaxObjects + 1],
     [BaseConfig EXCEPT !.security_enabled = FALSE]}

InitRead == \E c \in ReadConfigs : InitWith(c, [u \in Users |-> R1])

NextRead ==
    \/ ConnectionMade(ReadConn)
    \/ EnvRead(ReadConn)
    \/ ReadStep(ReadConn)
    \/ pending[ReadConn] = <<>> /\ ConnectionLost(ReadConn)

SpecRead == InitRead /\ [][NextRead]_vars

(***************************************************************************)
(* Properties of SpecRead.                                                 *)
(***************************************************************************)
\* C32 (as the specification states it): when dataReceived has gone through
\* the reads of a connection none of whose objects was cut, every object that
\* parses was handed to its handler, in arrival order, whichever objects of the
\* reads failed to parse.
C32_OthersStillDispatched ==
    \A p \in {ReadConn} :
        (pending[p] = <<>> /\ fragment[p] = "none") => dispatched[p] = arrived[p]

\* the first object of the first read was not JSON, a gunban followed it in the
\* same read, and dataReceived was left without handing the gunban to a handler
C32_Witness ==
    /\ last.result = "unbound_local_error"
    /\ nreads[ReadConn] = 1
    /\ GunbanMessage("u1", "X") \in {arrived[ReadConn][i] : i \in 1 .. Len(arrived[ReadConn])}
    /\ dispatched[ReadConn] = <<>>
    /\ pending[ReadConn] = <<>>

Dispatches(p, m) == {i \in 1 .. Len(dispatched[p]) : dispatched[p][i] = m}

\* C33 (as the specification states it): once both reads that hold the bytes of
\* an object have been gone through, the object has been handed to its handler
\* exactly once.
C33_SplitReassembled ==
    \A p \in {ReadConn} :
        (fragment[p] = "whole" /\ pending[p] = <<>>) =>
            Cardinality(Dispatches(p, SplitMessage)) = 1

\* the first bytes of a check_p2p_data ended the first read, the rest began the
\* second; dataReceived returned from both, the connection is open and the
\* object was not dispatched
C33_Witness ==
    /\ fragment[ReadConn] = "whole"
    /\ nreads[ReadConn] = 2
    /\ pending[ReadConn] = <<>>
    /\ st[ReadConn] = "open"
    /\ last.handler = "dataReceived"
    /\ Dispatches(ReadConn, SplitMessage) = {}

\* the message types dataReceived hands to a handler other than the handshake's
DataTypes == {"spammer_info_broadcast", "gunban", "unban", "spammer_info_removal",
              "check_p2p_data"}

EnvGunban(p) ==
    /\ p \in EnvConns
    /\ \E m \in GunbanInputs : Receive(p, m, 0)

GunbanConfigs == {BaseConfig, [BaseConfig EXCEPT !.security_enabled = FALSE]}

InitGunban == \E c \in GunbanConfigs : InitWith(c, [u \in Users |-> R1])

NextGunban ==
    \/ \E p \in EnvConns : ConnectionMade(p)
    \/ \E p \in EnvConns : EnvGunban(p)
    \/ \E p \in EnvConns : ConnectionLost(p)

SpecGunban == InitGunban /\ [][NextGunban]_vars

(***************************************************************************)
(* Properties of SpecGunban.                                               *)
(***************************************************************************)
\* gunban messages that lack spammer_id, source_node_uuid or both, or carry them empty
IncompleteGunbans ==
    {[type |-> "gunban", spammer_id |-> "u1"],
     [type |-> "gunban", source_node_uuid |-> "X"],
     [type |-> "gunban"],
     [type |-> "gunban", spammer_id |-> "", source_node_uuid |-> "X"],
     [type |-> "gunban", spammer_id |-> "u1", source_node_uuid |-> None]}

\* C34: in every reachable state and on every open connection,
\* handle_gunban_message leaves the storage as it is, writes nothing and does
\* not close the connection for a gunban that lacks spammer_id or
\* source_node_uuid; a step in which a gunban was dropped changes neither the
\* storage nor any connection nor the peer list, and writes nothing.
C34_IncompleteGunbanDropped ==
    /\ [](\A p \in EnvConns : \A m \in IncompleteGunbans :
            st[p] = "open" =>
                LET eff == handle_gunban_message(Owner(p), p, SM(Owner(p)), m)
                IN  /\ eff.result = "dropped"
                    /\ eff.storage = storage[Owner(p)]
                    /\ eff.writes = NoWrites
                    /\ ~eff.lose)
    /\ [][(last'.handler = "handle_gunban_message" /\ last'.result = "dropped") =>
              /\ out' = NoWrites
              /\ UNCHANGED <<storage, st, peers, known_uuids, peer_uuid, handshake_complete>>]_vars

\* a gunban was dropped on an open connection while the record of "u1" is
\* flagged and another connection is in the peer list
C34_Witness ==
    /\ last.handler = "handle_gunban_message"
    /\ last.result = "dropped"
    /\ st[last.conn] = "open"
    /\ storage["A"]["u1"] = R1
    /\ \E q \in peers["A"] \ {last.conn} : st[q] = "open"

(***************************************************************************)
(* SpecLoop: the three nodes, fully connected, with security disabled and  *)
(* with the settings of BaseConfig; node "A" originates one gunban; every  *)
(* message that arrived is eventually read.                                *)
(***************************************************************************)
LoopConfigs == {[BaseConfig EXCEPT !.security_enabled = FALSE], BaseConfig}

InitLoop == \E c \in LoopConfigs : InitWith(c, [u \in Users |-> R1])

\* the links are made one after the other (both ends, then their handshakes),
\* and the gunban is originated when all are through
NothingInFlight == \A q \in NodeConns : inbox[q] = <<>>

NextLoop ==
    \/ \E p \in NodeConns :
          /\ NothingInFlight \/ st[Remote(p)] # "idle"
          /\ \A q \in NodeConns : q < p => st[q] # "idle"
          /\ ConnectionMade(p)
    \/ \E p \in NodeConns : NodeData(p)
    \/ NothingInFlight /\ LocalGunban("A")

SpecLoop == InitLoop /\ [][NextLoop]_vars /\ WF_vars(\E p \in NodeConns : NodeData(p))

(***************************************************************************)
(* Properties of SpecLoop.                                                 *)
(***************************************************************************)
GunbanInFlight == \E p \in NodeConns : Gunbans(inbox[p]) # {}

SignedConfigs ==
    {[BaseConfig EXCEPT !.signing = TRUE, !.reject_unsigned = r] : r \in BOOLEAN}

InitSigned == \E c \in SignedConfigs : InitWith(c, [u \in Users |-> R1])

NextSigned ==
    \/ \E p \in NodeConns : ConnectionMade(p)
    \/ \E p \in NodeConns : NodeData(p)

SpecSigned ==
    /\ InitSigned
    /\ [][NextSigned]_vars
    /\ WF_vars(\E p \in NodeConns : ConnectionMade(p))
    /\ WF_vars(\E p \in NodeConns : NodeData(p))

=============================================================================
